---- MODULE Spec2Model ----
(***************************************************************************)
(* Abode: the repository layer of src/src/services/db.ts over idb-keyval,   *)
(* the seeding of src/src/App.vue, and the cascade / derived-status logic   *)
(* of the tenant, rent and property views.                                  *)
(*                                                                          *)
(* Every collection is one array stored under one key.  A repository call   *)
(* reads the whole array (get), changes its private copy and writes the     *)
(* whole array back (set); get and set are separate storage transactions.   *)
(***************************************************************************)
EXTENDS Integers, Sequences, FiniteSets, TLC

VARIABLES
    store,      \* idb-keyval: collection name -> stored array
    uuid,       \* number of crypto.randomUUID() values handed out so far
    calls,      \* repository calls in flight, one slot per caller
    view,       \* the mounted view: "none", "properties", "tenants", "rent"
    loaded,     \* how many of the mounted view's onMounted loads have resolved
    properties, \* the mounted view's ref properties
    tenants,    \* the mounted view's ref tenants
    payments,   \* the mounted view's ref payments
    ret,        \* the last handler that ran and how it ended
    seeding,    \* App.vue's seedDatabaseIfNeeded: "idle", "check", "adding", "done"
    dbPromise,  \* db.ts dbPromise = openDB(): "pending", "fulfilled", "rejected"
    auth        \* useAuth.ts: the session store, the refs of the module and its calls in flight

\* ------------------------------------------------------------------ bounds

MaxLen == 2         \* no add is started on a collection that holds this many
MaxUuid == 2        \* crypto.randomUUID() is called at most this many times
MaxViewUuid == 3    \* the same, for the views: records created in all
MaxLoads == 2       \* page loads whose seeding gets to its adds

viewVars == <<view, loaded, properties, tenants, payments, ret>>

\* ------------------------------------------------------------------- data

Collections == {"users", "properties", "tenants", "payments", "todos"}

\* crypto.randomUUID(): the n-th value; all distinct, none equal to a seed id.
UuidNames == <<"uuid-1", "uuid-2", "uuid-3", "uuid-4", "uuid-5", "uuid-6",
              "uuid-7", "uuid-8", "uuid-9">>
RandomUUID(n) == UuidNames[n]

SeedPropertyId == "prop-001"
SeedTenantId == "1"

\* String.prototype.toLowerCase on the user names the model uses.
ToLowerCase(s) ==
    CASE s = "Alice" -> "alice"
      [] s = "ALICE" -> "alice"
      [] s = "TestUser" -> "testuser"
      [] OTHER -> s

\* ------------------------------------------------- arrays of records (JS)

\* Array.prototype.findIndex(r => r.id === id): the first match, 0 for -1.
FindIndex(arr, id) ==
    IF \E i \in 1..Len(arr) : arr[i].id = id
    THEN CHOOSE i \in 1..Len(arr) :
            arr[i].id = id /\ \A j \in 1..(i - 1) : arr[j].id # id
    ELSE 0

\* Array.prototype.filter(r => r.id !== id)
FilterOutId(arr, id) == SelectSeq(arr, LAMBDA r : r.id # id)

\* users.find(u => u.username.toLowerCase() === name.toLowerCase()): index, 0 if none
FindUserIndex(arr, name) ==
    IF \E i \in 1..Len(arr) : ToLowerCase(arr[i].username) = ToLowerCase(name)
    THEN CHOOSE i \in 1..Len(arr) :
            /\ ToLowerCase(arr[i].username) = ToLowerCase(name)
            /\ \A j \in 1..(i - 1) : ToLowerCase(arr[j].username) # ToLowerCase(name)
    ELSE 0

\* ------------------------------------------------ repository calls, db.ts

\* db.getX: `await get(key) || []`; an error of get is caught and [] returned.
GetCollection(st, coll, getFails) == IF getFails THEN <<>> ELSE st[coll]

\* What a write call does with the array its getX returned, up to its set:
\* write = whether set is called, data = the array handed to set,
\* result = what the call returns when no set is called.
AddAfterRead(arr, rec) ==
    [write |-> TRUE, data |-> Append(arr, rec), result |-> "ok"]

\* (mutant) the record is pushed instead of put in the place of the old one
UpdateAfterReadPush(arr, rec) ==
    [write |-> FindIndex(arr, rec.id) # 0, data |-> Append(arr, rec), result |-> "ok"]

UpdateAfterRead(arr, rec) ==
    LET index == FindIndex(arr, rec.id)
    IN  IF index # 0
        THEN [write |-> TRUE, data |-> [arr EXCEPT ![index] = rec], result |-> "ok"]
        ELSE [write |-> FALSE, data |-> arr, result |-> "ok"]

\* (mutant) only the first record with the id is removed
DeleteAfterReadFirst(arr, rec) ==
    LET index == FindIndex(arr, rec.id)
    IN  IF index # 0
        THEN [write |-> TRUE, result |-> "ok",
              data |-> SubSeq(arr, 1, index - 1) \o SubSeq(arr, index + 1, Len(arr))]
        ELSE [write |-> FALSE, data |-> arr, result |-> "ok"]

DeleteAfterRead(arr, rec) ==
    LET filtered == FilterOutId(arr, rec.id)
    IN  IF Len(filtered) < Len(arr)
        THEN [write |-> TRUE, data |-> filtered, result |-> "ok"]
        ELSE [write |-> FALSE, data |-> arr, result |-> "ok"]

\* (mutant) the user names are compared as written
AddUserAfterReadExact(arr, rec) ==
    IF \E i \in 1..Len(arr) : arr[i].username = rec.username
    THEN [write |-> FALSE, data |-> arr, result |-> "taken"]
    ELSE [write |-> TRUE, data |-> Append(arr, rec), result |-> "ok"]

AddUserAfterRead(arr, rec) ==
    IF FindUserIndex(arr, rec.username) # 0
    THEN [write |-> FALSE, data |-> arr, result |-> "taken"]
    ELSE [write |-> TRUE, data |-> Append(arr, rec), result |-> "ok"]

UpdateUserAfterRead(arr, rec) ==
    LET index == FindIndex(arr, rec.id)
    IN  IF index = 0
        THEN [write |-> FALSE, data |-> arr, result |-> "notfound"]
        ELSE [write |-> TRUE, data |-> [arr EXCEPT ![index] = rec], result |-> "ok"]

AfterRead(op, arr, rec) ==
    CASE op = "add" -> AddAfterRead(arr, rec)
      [] op = "update" -> UpdateAfterRead(arr, rec)
      [] op = "delete" -> DeleteAfterRead(arr, rec)
      [] op = "addUser" -> AddUserAfterRead(arr, rec)
      [] op = "updateUser" -> UpdateUserAfterRead(arr, rec)

\* The result of a call whose set rejected: addUser and updateUser catch the
\* error and return {success: false}; every other write rethrows.
SetFailedResult(op) ==
    IF op \in {"addUser", "updateUser"} THEN "error" ELSE "throw"

\* (mutant) the array is rebuilt from what is stored when set is issued
WrittenValueReread(st, c) == AfterRead(c.op, st[c.coll], c.rec).data

\* The array a call hands to set: built from what the call itself read.
WrittenValue(st, c) == AfterRead(c.op, c.read, c.rec).data

Callers == {"a", "b"}

NoCall ==
    [op |-> "none", coll |-> "none", rec |-> [id |-> "none"], pc |-> "idle",
     read |-> <<>>, readFailed |-> FALSE, result |-> "none"]

\* A call is made: `await ensureDbReady()` and the get of its getX are issued
\* in the same task, so the array it will work on is the one stored now (or []
\* when get throws).  The call then either needs no set and returns, or waits
\* to issue its set.
Started(op, coll, rec, getFails) ==
    LET arr == GetCollection(store, coll, getFails)
        next == AfterRead(op, arr, rec)
    IN  [op |-> op, coll |-> coll, rec |-> rec,
         pc |-> IF next.write THEN "set" ELSE "done",
         read |-> IF next.write THEN arr ELSE <<>>,
         readFailed |-> getFails,
         result |-> IF next.write THEN "pending" ELSE next.result]

\* The records a caller of the repository passes in.
TenantRecords(ids) ==
    [id : ids, propertyId : {SeedPropertyId}, archive : {FALSE}, rent : {1}]
UserNames == {"alice", "Alice", "bob"}
UserRecords(ids) == [id : ids, username : UserNames, password : {"pw1"}]

\* db.addTenant(tenant) as the tenant view calls it: the id is a fresh UUID.
CallAddTenant(c) ==
    /\ calls[c].pc \in {"idle", "done"}
    /\ Len(store["tenants"]) < MaxLen
    /\ uuid < MaxUuid
    /\ uuid' = uuid + 1
    /\ \E rec \in TenantRecords({RandomUUID(uuid + 1)}), getFails \in BOOLEAN :
          calls' = [calls EXCEPT ![c] = Started("add", "tenants", rec, getFails)]
    /\ UNCHANGED <<store, viewVars, seeding, dbPromise, auth>>

\* db.updateTenant with a changed copy of a stored record.
CallUpdateTenant(c) ==
    /\ calls[c].pc \in {"idle", "done"}
    /\ \E i \in 1..Len(store["tenants"]), flag, getFails \in BOOLEAN :
          calls' = [calls EXCEPT ![c] =
              Started("update", "tenants",
                      [store["tenants"][i] EXCEPT !.archive = flag], getFails)]
    /\ UNCHANGED <<store, uuid, viewVars, seeding, dbPromise, auth>>

\* db.deleteTenant with the id of a stored record.
CallDeleteTenant(c) ==
    /\ calls[c].pc \in {"idle", "done"}
    /\ \E i \in 1..Len(store["tenants"]), getFails \in BOOLEAN :
          calls' = [calls EXCEPT ![c] =
              Started("delete", "tenants", [id |-> store["tenants"][i].id], getFails)]
    /\ UNCHANGED <<store, uuid, viewVars, seeding, dbPromise, auth>>

\* register's db.addUser(newUser): the id is a fresh UUID.
CallAddUser(c) ==
    /\ calls[c].pc \in {"idle", "done"}
    /\ Len(store["users"]) < MaxLen
    /\ uuid < MaxUuid
    /\ uuid' = uuid + 1
    /\ \E rec \in UserRecords({RandomUUID(uuid + 1)}), getFails \in BOOLEAN :
          calls' = [calls EXCEPT ![c] = Started("addUser", "users", rec, getFails)]
    /\ UNCHANGED <<store, viewVars, seeding, dbPromise, auth>>

\* The users a session can hold as currentUser: a stored one (login), or one
\* whose registration has just returned success.
SessionUsers ==
    {store["users"][i] : i \in 1..Len(store["users"])}
    \cup {calls[d].rec : d \in {e \in Callers : /\ calls[e].op = "addUser"
                                                /\ calls[e].pc = "done"
                                                /\ calls[e].result = "ok"}}

\* updateProfile's db.updateUser(userToUpdate): a copy of currentUser with a
\* new password.
CallUpdateUser(c) ==
    /\ calls[c].pc \in {"idle", "done"}
    /\ \E user \in SessionUsers, pw \in {"pw1", "pw2"}, getFails \in BOOLEAN :
          calls' = [calls EXCEPT ![c] =
              Started("updateUser", "users", [user EXCEPT !.password = pw], getFails)]
    /\ UNCHANGED <<store, uuid, viewVars, seeding, dbPromise, auth>>

\* The call's set resolves: the whole array is stored, or set threw.
RepoSet(c) ==
    /\ calls[c].pc = "set"
    /\ \E setFails \in BOOLEAN :
          /\ store' = IF setFails THEN store
                      ELSE [store EXCEPT ![calls[c].coll] = WrittenValue(store, calls[c])]
          /\ calls' = [calls EXCEPT ![c] =
                  [@ EXCEPT !.pc = "done",
                            !.result = IF setFails THEN SetFailedResult(calls[c].op)
                                       ELSE "ok"]]
    /\ UNCHANGED <<uuid, viewVars, seeding, dbPromise, auth>>

vars == <<store, uuid, calls, view, loaded, properties, tenants, payments, ret, seeding,
          dbPromise, auth>>

NoRet == [op |-> "none", result |-> "none", id |-> "none"]

\* useAuth.ts when nobody is signed in and nothing is in flight: the session
\* store holds no username, the refs have their initial values.
NoUser == [id |-> "null"]
NoAuth ==
    [session |-> "", isAuthenticated |-> FALSE, currentUser |-> NoUser,
     authError |-> "null", isLoading |-> FALSE, isFetchingInitialUser |-> FALSE,
     fetching |-> "", login |-> <<>>, update |-> <<>>]

Init ==
    /\ store = [coll \in Collections |-> <<>>]
    /\ uuid = 0
    /\ calls = [c \in Callers \cup Collections |-> NoCall]
    /\ seeding = "idle"
    /\ dbPromise = "fulfilled"
    /\ auth = NoAuth
    /\ view = "none"
    /\ loaded = 0
    /\ properties = <<>>
    /\ tenants = <<>>
    /\ payments = <<>>
    /\ ret = NoRet

\* Two callers of the tenant repository.
NextRepo ==
    \E c \in Callers :
        \/ CallAddTenant(c)
        \/ CallUpdateTenant(c)
        \/ CallDeleteTenant(c)
        \/ RepoSet(c)

SpecRepo == Init /\ [][NextRepo]_vars

\* Two callers of the user repository.
NextUsers ==
    \E c \in Callers :
        \/ CallAddUser(c)
        \/ CallUpdateUser(c)
        \/ RepoSet(c)

SpecUsers == Init /\ [][NextUsers]_vars


\* ---------------------------------------------------------------- views
\* One view is mounted at a time.  Its refs properties, tenants and payments
\* start empty and are filled by the awaits of onMounted, in this order; a
\* handler may run between two of them.  A handler is one action: the
\* repository calls it awaits, its refreshes of the refs, its early returns.
\* What the form holds when a handler runs is an input of the handler.

\* (mutant) deleting a property also removes the tenants that name it
DbCallCascading(st, op, coll, rec) ==
    LET next == AfterRead(op, st[coll], rec)
        after == IF next.write THEN [st EXCEPT ![coll] = next.data] ELSE st
    IN  IF op = "delete" /\ coll = "properties"
        THEN [after EXCEPT !["tenants"] =
                 SelectSeq(st["tenants"], LAMBDA t : t.propertyId # rec.id)]
        ELSE after

\* A repository call that runs alone: the stored collections after it.
DbCall(st, op, coll, rec) ==
    LET next == AfterRead(op, st[coll], rec)
    IN  IF next.write THEN [st EXCEPT ![coll] = next.data] ELSE st

\* for (const payment of associatedPayments) await db.deletePayment(payment.id)
RECURSIVE DeletePayments(_, _)
DeletePayments(st, pays) ==
    IF pays = <<>> THEN st
    ELSE DeletePayments(DbCall(st, "delete", "payments", [id |-> Head(pays).id]),
                        Tail(pays))

Ids(arr) == {arr[i].id : i \in 1..Len(arr)}

\* (mutant) a property that is not found counts as archived
getPropertyArchivedStatusFailClosed(propertyId) ==
    LET i == FindIndex(properties, propertyId)
    IN  IF i = 0 THEN TRUE ELSE properties[i].archive

\* properties.value.find(p => p.id === propertyId)?.archive ?? false
getPropertyArchivedStatus(propertyId) ==
    LET i == FindIndex(properties, propertyId)
    IN  IF i = 0 THEN FALSE ELSE properties[i].archive

\* (mutant) only the tenant's own flag is looked at
isEffectivelyArchivedOwnFlag(tenant) == tenant.archive

\* TenantList.vue: tenant.archive || getPropertyArchivedStatus(tenant.propertyId)
isEffectivelyArchived(tenant) ==
    tenant.archive \/ getPropertyArchivedStatus(tenant.propertyId)

\* tenants.value.find(t => t.id === id), Undefined when there is none
Undefined == [id |-> "undefined"]
FindTenant(id) ==
    LET i == FindIndex(tenants, id)
    IN  IF i = 0 THEN Undefined ELSE tenants[i]

\* (mutant) a tenant that is not found counts as active
isTenantEffectivelyArchivedFailOpen(tenant) ==
    IF tenant = Undefined THEN FALSE
    ELSE tenant.archive \/ getPropertyArchivedStatus(tenant.propertyId)

\* RentTracking.vue: if (!tenant) return true; the same otherwise
isTenantEffectivelyArchived(tenant) ==
    IF tenant = Undefined THEN TRUE
    ELSE tenant.archive \/ getPropertyArchivedStatus(tenant.propertyId)

Views == {"properties", "tenants", "rent"}
\* onMounted of the property view awaits two loads, the others three.
NumLoads(v) == IF v = "properties" THEN 2 ELSE 3

\* The router mounts another view: a new component, its refs empty.
Navigate(v) ==
    /\ v \in Views /\ v # view
    /\ view' = v
    /\ loaded' = 0
    /\ properties' = <<>> /\ tenants' = <<>> /\ payments' = <<>>
    /\ ret' = NoRet
    /\ UNCHANGED <<store, uuid, calls, seeding, dbPromise, auth>>

\* The next await of onMounted resolves: db.getProperties(), then
\* db.getTenants(), then db.getPayments(); a get that throws yields [].
MountLoad ==
    /\ view \in Views /\ loaded < NumLoads(view)
    /\ \E getFails \in BOOLEAN :
          /\ properties' = IF loaded = 0
                           THEN GetCollection(store, "properties", getFails)
                           ELSE properties
          /\ tenants' = IF loaded = 1
                        THEN GetCollection(store, "tenants", getFails)
                        ELSE tenants
          /\ payments' = IF loaded = 2
                         THEN GetCollection(store, "payments", getFails)
                         ELSE payments
    /\ loaded' = loaded + 1
    /\ UNCHANGED <<store, uuid, calls, seeding, dbPromise, auth, view, ret>>

\* ---- property view (PropertyList.vue)

\* What a text field of a form can hold: nothing, or some text.
Texts == {"", "text"}

\* addOrUpdateProperty: `!newProperty.value.name || !newProperty.value.address`
MissingPropertyDetails(name, address) == name = "" \/ address = ""

\* addOrUpdateProperty, adding: name and address are required.
AddProperty ==
    /\ view = "properties"
    /\ \E name, address \in Texts :
          IF MissingPropertyDetails(name, address)
          THEN /\ ret' = [op |-> "addOrUpdateProperty", result |-> "invalid", id |-> "none"]
               /\ UNCHANGED <<store, uuid, properties>>
          ELSE /\ uuid < MaxViewUuid
               /\ uuid' = uuid + 1
               /\ LET property == [id |-> RandomUUID(uuid + 1), archive |-> FALSE]
                  IN  /\ store' = DbCall(store, "add", "properties", property)
                      /\ ret' = [op |-> "addOrUpdateProperty", result |-> "saved",
                                 id |-> property.id]
               /\ properties' = store'["properties"]
    /\ UNCHANGED <<calls, seeding, dbPromise, auth, view, loaded, tenants, payments>>

\* toggleArchiveProperty(property), property one of the listed ones.
ToggleArchiveProperty ==
    /\ view = "properties"
    /\ \E i \in 1..Len(properties) :
          LET updatedProperty == [properties[i] EXCEPT !.archive = ~properties[i].archive]
          IN  /\ store' = DbCall(store, "update", "properties", updatedProperty)
              /\ ret' = [op |-> "toggleArchiveProperty", result |-> "saved",
                         id |-> updatedProperty.id]
    /\ properties' = store'["properties"]
    /\ UNCHANGED <<uuid, calls, seeding, dbPromise, auth, view, loaded, tenants, payments>>

\* deleteProperty(id), id the id of a listed property.
DeleteProperty ==
    /\ view = "properties"
    /\ \E i \in 1..Len(properties) :
          /\ store' = DbCall(store, "delete", "properties", [id |-> properties[i].id])
          /\ ret' = [op |-> "deleteProperty", result |-> "deleted", id |-> properties[i].id]
    /\ properties' = store'["properties"]
    /\ UNCHANGED <<uuid, calls, seeding, dbPromise, auth, view, loaded, tenants, payments>>

\* ---- tenant view (TenantList.vue)

Rents == {1}

\* The property ids a tenant form can hold: none, a listed property, or the
\* property of a listed tenant (editTenant copies the tenant into the form).
FormPropertyIds == {""} \cup Ids(properties) \cup {tenants[i].propertyId : i \in 1..Len(tenants)}

\* The floor select of the tenant form (v-model.number): 0 stands for a
\* value that is falsy, 1 for a floor.
Floors == {0, 1}
\* The details of a tenant form: all given, or one of them left out.
TenantDetails ==
    {d \in [name : Texts, floor : Floors, room : Texts] :
        (IF d.name = "" THEN 1 ELSE 0) + (IF d.floor = 0 THEN 1 ELSE 0)
           + (IF d.room = "" THEN 1 ELSE 0) <= 1}

\* addOrUpdateTenant: `!name || !propertyId || !floor || !room`
MissingTenantDetails(details, propertyId) ==
    details.name = "" \/ propertyId = "" \/ details.floor = 0 \/ details.room = ""

\* What addOrUpdateTenant does with the form it finds: the outcome, the
\* tenant record it builds, and the repository call it makes.
TenantSubmission(details, propertyId, rent, isEditing, editingTenantId, archive, newId) ==
    LET i == FindIndex(properties, propertyId)
        tenant == [id |-> IF isEditing /\ editingTenantId # "" THEN editingTenantId
                          ELSE newId,
                   propertyId |-> propertyId,
                   archive |-> IF isEditing THEN archive ELSE FALSE,
                   rent |-> rent]
    IN  IF MissingTenantDetails(details, propertyId)
        THEN [result |-> "invalid", tenant |-> tenant, op |-> "none"]
        ELSE IF i # 0 /\ properties[i].archive
        THEN [result |-> "rejected", tenant |-> tenant, op |-> "none"]
        ELSE [result |-> "saved", tenant |-> tenant,
              op |-> IF isEditing THEN "update" ELSE "add"]

addOrUpdateTenant ==
    /\ view = "tenants"
    /\ \E details \in TenantDetails, isEditing, archive \in BOOLEAN,
          propertyId \in FormPropertyIds,
          rent \in Rents, editingTenantId \in Ids(tenants) \cup {""} :
          /\ isEditing <=> editingTenantId # ""
          /\ (~isEditing) => ~archive
          /\ LET sub == TenantSubmission(details, propertyId, rent, isEditing,
                                         editingTenantId, archive,
                                         RandomUUID(uuid + 1))
             IN  /\ (sub.op = "add") => uuid < MaxViewUuid
                 /\ uuid' = IF sub.op = "add" THEN uuid + 1 ELSE uuid
                 /\ store' = IF sub.op = "none" THEN store
                             ELSE DbCall(store, sub.op, "tenants", sub.tenant)
                 /\ ret' = [op |-> "addOrUpdateTenant", result |-> sub.result,
                            id |-> sub.tenant.id]
                 /\ IF sub.op = "none"
                    THEN UNCHANGED <<properties, tenants, payments>>
                    ELSE /\ properties' = store'["properties"]
                         /\ tenants' = store'["tenants"]
                         /\ payments' = store'["payments"]
    /\ UNCHANGED <<calls, seeding, dbPromise, auth, view, loaded>>

\* payments.value.filter(p => p.tenantId === id)
AssociatedPayments(id) == SelectSeq(payments, LAMBDA p : p.tenantId = id)

\* deleteTenant after the confirmation: the payments the view lists for the
\* tenant are deleted one by one, then the tenant.
Cascade(st, id, pays) ==
    DbCall(DeletePayments(st, pays), "delete", "tenants", [id |-> id])

\* deleteTenant(id), id the id of a listed tenant.
deleteTenant ==
    /\ view = "tenants"
    /\ \E i \in 1..Len(tenants), confirmDelete \in BOOLEAN :
          LET id == tenants[i].id
          IN  IF ~confirmDelete
              THEN /\ ret' = [op |-> "deleteTenant", result |-> "cancelled", id |-> id]
                   /\ UNCHANGED <<store, tenants, payments>>
              ELSE /\ store' = Cascade(store, id, AssociatedPayments(id))
                   /\ tenants' = store'["tenants"]
                   /\ payments' = store'["payments"]
                   /\ ret' = [op |-> "deleteTenant", result |-> "deleted", id |-> id]
    /\ UNCHANGED <<uuid, calls, seeding, dbPromise, auth, view, loaded, properties>>

\* (mutant) the flag is written whatever the property's state
ToggleOutcomeUnguarded(tenant) ==
    [result |-> "saved", tenant |-> [tenant EXCEPT !.archive = ~tenant.archive]]

\* toggleArchiveTenant(tenant): refused when the property is archived,
\* otherwise the tenant with its own flag inverted is written.
ToggleOutcome(tenant) ==
    IF getPropertyArchivedStatus(tenant.propertyId)
    THEN [result |-> "rejected", tenant |-> tenant]
    ELSE [result |-> "saved", tenant |-> [tenant EXCEPT !.archive = ~tenant.archive]]

toggleArchiveTenant ==
    /\ view = "tenants"
    /\ \E i \in 1..Len(tenants) :
          LET out == ToggleOutcome(tenants[i])
          IN  /\ ret' = [op |-> "toggleArchiveTenant", result |-> out.result,
                         id |-> tenants[i].id]
              /\ IF out.result = "rejected"
                 THEN UNCHANGED <<store, tenants>>
                 ELSE /\ store' = DbCall(store, "update", "tenants", out.tenant)
                      /\ tenants' = store'["tenants"]
    /\ UNCHANGED <<uuid, calls, seeding, dbPromise, auth, view, loaded, properties, payments>>

\* ---- rent view (RentTracking.vue)

Amounts == {0, 1}
Statuses == {"paid", "partial"}

\* The tenant ids a payment form can hold: none, a listed tenant, or the
\* tenant of a listed payment (editPayment copies the payment into the form).
FormTenantIds == {""} \cup Ids(tenants) \cup {payments[i].tenantId : i \in 1..Len(payments)}

\* newPayment.amount when the form holds no amount (null or undefined):
\* a value that is none of the numbers a form can hold.
Null == 0 - 1
FormAmounts == Amounts \cup {Null}
FormStatuses == Statuses \cup {""}
PaymentDetails == [date : Texts, month : Texts]

\* The payment forms submitted: every field given, or the form of the reset
\* modal (amount 0, status paid, a date, a month) with one field left out.
PaymentForms ==
    [amount : Amounts, status : Statuses, details : {[date |-> "text", month |-> "text"]}]
    \cup {[amount |-> Null, status |-> "paid", details |-> [date |-> "text", month |-> "text"]],
          [amount |-> 0, status |-> "", details |-> [date |-> "text", month |-> "text"]],
          [amount |-> 0, status |-> "paid", details |-> [date |-> "", month |-> "text"]],
          [amount |-> 0, status |-> "paid", details |-> [date |-> "text", month |-> ""]]}

\* (mutant) the month is not asked for
MissingPaymentDetailsNoMonth(tenantId, amount, status, details) ==
    tenantId = "" \/ amount = Null \/ details.date = "" \/ status = ""

\* addOrUpdatePayment:
\* `!tenantId || amount == null || !date || !status || !month`
MissingPaymentDetails(tenantId, amount, status, details) ==
    tenantId = "" \/ amount = Null \/ details.date = "" \/ status = "" \/ details.month = ""

\* (mutant) the check of the tenant is left out
PaymentSubmissionUnchecked(tenantId, amount, status, details, isEditingPayment, editingPaymentId, confirmPaid, newId) ==
    LET payment == [id |-> IF isEditingPayment /\ editingPaymentId # ""
                           THEN editingPaymentId ELSE newId,
                    tenantId |-> tenantId, amount |-> amount, status |-> status,
                    archive |-> FALSE]
    IN  IF MissingPaymentDetails(tenantId, amount, status, details)
        THEN [result |-> "invalid", payment |-> payment, op |-> "none"]
        ELSE [result |-> "saved", payment |-> payment,
              op |-> IF isEditingPayment THEN "update" ELSE "add"]

\* What addOrUpdatePayment does with the form it finds.
PaymentSubmission(tenantId, amount, status, details, isEditingPayment, editingPaymentId, confirmPaid, newId) ==
    LET selectedTenant == FindTenant(tenantId)
        j == FindIndex(payments, editingPaymentId)
        payment == [id |-> IF isEditingPayment /\ editingPaymentId # ""
                           THEN editingPaymentId ELSE newId,
                    tenantId |-> tenantId, amount |-> amount, status |-> status,
                    archive |-> IF isEditingPayment /\ j # 0
                                THEN payments[j].archive ELSE FALSE]
    IN  IF MissingPaymentDetails(tenantId, amount, status, details)
        THEN [result |-> "invalid", payment |-> payment, op |-> "none"]
        ELSE IF selectedTenant = Undefined \/ isTenantEffectivelyArchived(selectedTenant)
        THEN [result |-> "rejected", payment |-> payment, op |-> "none"]
        ELSE IF status = "partial" /\ amount >= selectedTenant.rent
        THEN [result |-> "partial", payment |-> payment, op |-> "none"]
        ELSE IF status = "paid" /\ amount # selectedTenant.rent /\ ~confirmPaid
        THEN [result |-> "cancelled", payment |-> payment, op |-> "none"]
        ELSE [result |-> "saved", payment |-> payment,
              op |-> IF isEditingPayment THEN "update" ELSE "add"]

addOrUpdatePayment ==
    /\ view = "rent"
    /\ \E tenantId \in FormTenantIds, form \in PaymentForms,
          isEditingPayment, confirmPaid \in BOOLEAN,
          editingPaymentId \in Ids(payments) \cup {""} :
          /\ isEditingPayment <=> editingPaymentId # ""
          /\ LET sub == PaymentSubmission(tenantId, form.amount, form.status,
                                          form.details, isEditingPayment,
                                          editingPaymentId, confirmPaid,
                                          RandomUUID(uuid + 1))
             IN  /\ (sub.op = "add") => uuid < MaxViewUuid
                 /\ uuid' = IF sub.op = "add" THEN uuid + 1 ELSE uuid
                 /\ store' = IF sub.op = "none" THEN store
                             ELSE DbCall(store, sub.op, "payments", sub.payment)
                 /\ ret' = [op |-> "addOrUpdatePayment", result |-> sub.result,
                            id |-> tenantId]
                 /\ payments' = IF sub.op = "none" THEN payments
                                ELSE store'["payments"]
    /\ UNCHANGED <<calls, seeding, dbPromise, auth, view, loaded, properties, tenants>>

\* deletePayment(id) of the rent view, after its confirmation.
deletePayment ==
    /\ view = "rent"
    /\ \E i \in 1..Len(payments), confirmDelete \in BOOLEAN :
          IF ~confirmDelete
          THEN /\ ret' = [op |-> "deletePayment", result |-> "cancelled",
                          id |-> payments[i].id]
               /\ UNCHANGED <<store, payments>>
          ELSE /\ store' = DbCall(store, "delete", "payments", [id |-> payments[i].id])
               /\ payments' = store'["payments"]
               /\ ret' = [op |-> "deletePayment", result |-> "deleted",
                          id |-> payments[i].id]
    /\ UNCHANGED <<uuid, calls, seeding, dbPromise, auth, view, loaded, properties, tenants>>

NextView ==
    \/ \E v \in Views : Navigate(v)
    \/ MountLoad
    \/ AddProperty
    \/ ToggleArchiveProperty
    \/ DeleteProperty
    \/ addOrUpdateTenant
    \/ deleteTenant
    \/ toggleArchiveTenant
    \/ addOrUpdatePayment
    \/ deletePayment

SpecView == Init /\ [][NextView]_vars


\* ------------------------------------------------- claims about the views

\* What the claims say, stated without the helpers of the views.
PropertyArchivedIn(props, propertyId) ==
    \E j \in 1..Len(props) : props[j].id = propertyId /\ props[j].archive
PropertyMissingIn(props, propertyId) ==
    \A j \in 1..Len(props) : props[j].id # propertyId

\* ------------------------------------------------------------------ C1
\* C1: after the tenant view's deleteTenant(id) has run with the confirmation
\* accepted, no stored tenant has that id and no stored payment has it as
\* tenantId, however many stored payments referenced the tenant.
C1_CascadeComplete ==
    [][(ret'.op = "deleteTenant" /\ ret'.result = "deleted" /\ deleteTenant)
          => /\ \A i \in 1..Len(store'["tenants"]) : store'["tenants"][i].id # ret'.id
             /\ \A i \in 1..Len(store'["payments"]) :
                   store'["payments"][i].tenantId # ret'.id]_vars

\* ------------------------------------------------------------------ C4
\* C4 (as stated): every tenant the view lists whose propertyId matches no
\* stored property is effectively archived, whatever its own flag.
C4_MissingPropertyArchives ==
    \A i \in 1..Len(tenants) :
        PropertyMissingIn(store["properties"], tenants[i].propertyId)
            => /\ view = "tenants" => isEffectivelyArchived(tenants[i])
               /\ view = "rent" => isTenantEffectivelyArchived(tenants[i])

\* C4 (amended): for a tenant whose propertyId matches no stored property the
\* predicate of either view returns the tenant's own archive flag, so it is
\* false when that flag is false.
C4_MissingPropertyOwnFlag ==
    \A i \in 1..Len(tenants) :
        PropertyMissingIn(store["properties"], tenants[i].propertyId)
            => /\ view = "tenants" => (isEffectivelyArchived(tenants[i]) <=> tenants[i].archive)
               /\ view = "rent" => (isTenantEffectivelyArchived(tenants[i]) <=> tenants[i].archive)

C4_Witness ==
    /\ view = "tenants" /\ loaded = 3
    /\ \E i \in 1..Len(tenants) :
          /\ PropertyMissingIn(store["properties"], tenants[i].propertyId)
          /\ ~tenants[i].archive
          /\ ~isEffectivelyArchived(tenants[i])

\* ------------------------------------------------------------------ C5
\* C5: for every listed tenant t and the properties the view holds, the
\* effective status is t.archive or "a property with t's propertyId exists
\* and is archived"; so it is true whenever t.archive is, and it is t.archive
\* when the property exists and is not archived.
C5_EffectiveStatus ==
    \A i \in 1..Len(tenants) :
        LET t == tenants[i]
        IN  /\ getPropertyArchivedStatus(t.propertyId)
                 <=> PropertyArchivedIn(properties, t.propertyId)
            /\ isEffectivelyArchived(t)
                 <=> (t.archive \/ PropertyArchivedIn(properties, t.propertyId))
            /\ isTenantEffectivelyArchived(t) <=> isEffectivelyArchived(t)
            /\ t.archive => isEffectivelyArchived(t)
            /\ (~PropertyMissingIn(properties, t.propertyId)
                  /\ ~PropertyArchivedIn(properties, t.propertyId))
                 => (isEffectivelyArchived(t) <=> t.archive)

C5_Witness ==
    /\ view = "tenants"
    /\ \E i \in 1..Len(tenants) :
          /\ ~tenants[i].archive
          /\ PropertyArchivedIn(properties, tenants[i].propertyId)
          /\ isEffectivelyArchived(tenants[i])

\* The step is one of addOrUpdatePayment: the mounted view stays as loaded
\* and the handler that has run last is addOrUpdatePayment.
PaymentSubmitted ==
    /\ ret'.op = "addOrUpdatePayment"
    /\ view' = view /\ loaded' = loaded

\* ------------------------------------------------------------------ C6
\* C6: addOrUpdatePayment, adding or editing, with a form whose tenant the
\* view does not list, or lists as archived itself or in an archived
\* property, is refused (as incomplete when a detail is missing, as rejected
\* otherwise): nothing is stored and the payments are unchanged.
TenantBlockedInView(id) ==
    \/ id \notin Ids(tenants)
    \/ \E i \in 1..Len(tenants) :
          /\ tenants[i].id = id
          /\ tenants[i].archive \/ PropertyArchivedIn(properties, tenants[i].propertyId)

C6_ArchivedTenantPaymentRejected ==
    [][(PaymentSubmitted /\ ret'.id # "" /\ TenantBlockedInView(ret'.id))
          => /\ ret'.result \in {"invalid", "rejected"}
             /\ store' = store
             /\ payments' = payments]_vars

C6_Witness ==
    /\ view = "rent"
    /\ ret.op = "addOrUpdatePayment" /\ ret.result = "rejected"
    /\ \E i \in 1..Len(tenants) :
          /\ tenants[i].id = ret.id
          /\ ~tenants[i].archive
          /\ PropertyArchivedIn(properties, tenants[i].propertyId)

\* ------------------------------------------------------------------ C7
\* C7: addOrUpdateTenant never writes a tenant record whose property is
\* archived in storage at the time of the write.
C7_NoTenantWrittenToArchivedProperty ==
    [][(store'["tenants"] # store["tenants"] /\ addOrUpdateTenant)
          => \A i \in 1..Len(store'["tenants"]) :
                store'["tenants"][i].id = ret'.id
                   => ~PropertyArchivedIn(store["properties"],
                                          store'["tenants"][i].propertyId)]_vars

\* ------------------------------------------------------------------ C8
\* C8: toggleArchiveTenant on a tenant whose property the view holds as
\* archived is refused and stores nothing; otherwise the stored record of
\* that tenant gets its own flag inverted and nothing else stored changes.
C8_ToggleArchiveTenant ==
    [][(ret'.op = "toggleArchiveTenant" /\ toggleArchiveTenant) =>
          \E i \in 1..Len(tenants) :
             /\ tenants[i].id = ret'.id
             /\ IF PropertyArchivedIn(properties, tenants[i].propertyId)
                THEN /\ ret'.result = "rejected"
                     /\ store' = store
                     /\ tenants' = tenants
                ELSE /\ ret'.result = "saved"
                     /\ Len(store'["tenants"]) = Len(store["tenants"])
                     /\ \E k \in 1..Len(store["tenants"]) : store["tenants"][k].id = ret'.id
                     /\ \A k \in 1..Len(store["tenants"]) :
                          store'["tenants"][k] =
                             IF store["tenants"][k].id = ret'.id
                             THEN [store["tenants"][k] EXCEPT !.archive = ~@]
                             ELSE store["tenants"][k]
                     /\ \A coll \in Collections \ {"tenants"} :
                          store'[coll] = store[coll]]_vars

C8_Witness ==
    /\ view = "tenants"
    /\ ret.op = "toggleArchiveTenant" /\ ret.result = "saved"
    /\ Len(store["tenants"]) = 2
    /\ \E k \in 1..2 : store["tenants"][k].id = ret.id /\ store["tenants"][k].archive
    /\ \E k \in 1..2 : store["tenants"][k].id # ret.id /\ ~store["tenants"][k].archive


\* -------------------------------------------------------------- seeding
\* App.vue runs seedDatabaseIfNeeded once per page load.  seedData.ts is
\* evaluated on each load: the ids of the seed user, payment and todo are
\* new crypto.randomUUID() values, those of the property and the tenant are
\* fixed.  Each db.add of the Promise.all is a call in the slot named after
\* its collection.

SeedRecord(coll, n) ==
    CASE coll = "users" -> [id |-> RandomUUID(n + 1), username |-> "testuser",
                            password |-> "pw1"]
      [] coll = "properties" -> [id |-> SeedPropertyId, archive |-> FALSE]
      [] coll = "tenants" -> [id |-> SeedTenantId, propertyId |-> SeedPropertyId,
                              archive |-> FALSE, rent |-> 1]
      [] coll = "payments" -> [id |-> RandomUUID(n + 2), tenantId |-> SeedTenantId,
                               amount |-> 1, status |-> "paid", archive |-> FALSE]
      [] OTHER -> [id |-> RandomUUID(n + 3)]

SeedOp(coll) == IF coll = "users" THEN "addUser" ELSE "add"

\* The page is loaded, or loaded again: the calls of the page that is left
\* are gone with it, what they have stored stays.
AppMounted ==
    /\ uuid + 3 <= 3 * MaxLoads
    /\ seeding' = "check"
    /\ calls' = [c \in Callers \cup Collections |-> NoCall]
    /\ UNCHANGED <<store, uuid, viewVars, dbPromise, auth>>

\* await db.getUsers() resolves: the seeding is skipped when there are users,
\* otherwise every seed record is handed to its add, all in the same task.
SeedCheck ==
    /\ seeding = "check"
    /\ \E getFails \in BOOLEAN :
          IF Len(GetCollection(store, "users", getFails)) > 0
          THEN /\ seeding' = "done"
               /\ UNCHANGED <<uuid, calls>>
          ELSE /\ seeding' = "adding"
               /\ uuid' = uuid + 3
               /\ \E getFailsOf \in SUBSET Collections :
                     calls' = [c \in Callers \cup Collections |->
                                 IF c \in Collections
                                 THEN Started(SeedOp(c), c, SeedRecord(c, uuid),
                                              c \in getFailsOf)
                                 ELSE calls[c]]
    /\ UNCHANGED <<store, viewVars, dbPromise, auth>>

\* The set of one seed add is carried out; .catch(e => console.error(...))
\* drops what the add returns or throws.
SeedAddSet(c) ==
    /\ seeding = "adding"
    /\ c \in Collections
    /\ calls[c].pc = "set"
    /\ \E setFails \in BOOLEAN :
          store' = IF setFails THEN store
                   ELSE [store EXCEPT ![c] = WrittenValue(store, calls[c])]
    /\ calls' = [calls EXCEPT ![c] = [NoCall EXCEPT !.pc = "done"]]
    /\ UNCHANGED <<uuid, viewVars, seeding, dbPromise, auth>>

\* Promise.all resolves when every add has settled.
SeedingCompleted ==
    /\ seeding = "adding"
    /\ \A c \in Collections : calls[c].pc = "done"
    /\ seeding' = "done"
    /\ calls' = [c \in Callers \cup Collections |-> NoCall]
    /\ UNCHANGED <<store, uuid, viewVars, dbPromise, auth>>

NextSeed ==
    \/ AppMounted
    \/ SeedCheck
    \/ \E c \in Collections : SeedAddSet(c)
    \/ SeedingCompleted

SpecSeed == Init /\ [][NextSeed]_vars

\* ----------------------------------------------------------------- C10
\* C10: no collection ever holds two records with the same id, also after
\* an add of an id that is stored already and after the seeding has run more
\* than once with its fixed ids 'prop-001' and "1".
C10_UniqueIds ==
    \A coll \in Collections :
       \A i, j \in 1..Len(store[coll]) :
          store[coll][i].id = store[coll][j].id => i = j

\* ------------------------------------------------------------------ C2
\* C2: two add calls on the tenants collection that both read the same array:
\* when the second one's set lands after the first one's, both have returned
\* without error and the stored array is the common snapshot plus the second
\* writer's record alone; the first writer's record is gone.
SecondWriterSets(c, d) ==
    /\ c # d
    /\ calls[c].pc = "set" /\ calls[c].op = "add" /\ ~calls[c].readFailed
    /\ calls[d].pc = "done" /\ calls[d].op = "add" /\ calls[d].result = "ok"
    /\ ~calls[d].readFailed
    /\ calls[d].read = calls[c].read
    /\ store["tenants"] = Append(calls[d].read, calls[d].rec)
    /\ calls'[c].pc = "done" /\ calls'[c].result = "ok"

C2_LostUpdate ==
    [][\A c, d \in Callers :
          SecondWriterSets(c, d) =>
              /\ store'["tenants"] = Append(calls[c].read, calls[c].rec)
              /\ \A i \in 1..Len(store'["tenants"]) :
                    store'["tenants"][i] # calls[d].rec
              /\ calls'[d].result = "ok"]_vars

C2_Witness ==
    \E c, d \in Callers :
        /\ c # d
        /\ calls[c].pc = "done" /\ calls[c].op = "add" /\ calls[c].result = "ok"
        /\ calls[d].pc = "done" /\ calls[d].op = "add" /\ calls[d].result = "ok"
        /\ ~calls[c].readFailed /\ ~calls[d].readFailed
        /\ calls[c].read = calls[d].read
        /\ store["tenants"] = Append(calls[c].read, calls[c].rec)
        /\ \A i \in 1..Len(store["tenants"]) : store["tenants"][i] # calls[d].rec

\* ------------------------------------------------------------------ C3
\* C3: a repository write whose read or whose set failed leaves the stored
\* collection as it was.
C3_FailedWriteChangesNothing ==
    [][\A c \in Callers :
          (/\ calls[c].pc = "set" /\ calls'[c].pc = "done"
           /\ (calls[c].readFailed \/ calls'[c].result \in {"throw", "error"}))
          => store' = store]_vars

\* ------------------------------------------------------------------ C9
\* C9: no two stored users have user names that are equal ignoring case, in
\* every reachable state; and an addUser call that reads a users array holding
\* its user name in any letter case returns "Username is already taken." and
\* issues no set.
UsersUnique ==
    \A i, j \in 1..Len(store["users"]) :
        ToLowerCase(store["users"][i].username) = ToLowerCase(store["users"][j].username)
            => i = j

DuplicateRejected(c) ==
    (/\ calls[c].pc \in {"idle", "done"}
     /\ calls'[c] # calls[c]
     /\ calls'[c].op = "addUser"
     /\ ~calls'[c].readFailed
     /\ \E i \in 1..Len(store["users"]) :
           ToLowerCase(store["users"][i].username) = ToLowerCase(calls'[c].rec.username))
    => /\ calls'[c].pc = "done"
       /\ calls'[c].result = "taken"
       /\ store' = store

MaxPayments == 2    \* payments in a snapshot

SnapshotPropertyId == "p-1"
SnapshotTenantIds == <<"t-1", "t-2">>
SnapshotTenantIdSet == {SnapshotTenantIds[i] : i \in 1..Len(SnapshotTenantIds)}
SnapshotPaymentIds == <<"pay-1", "pay-2", "pay-3", "pay-4">>

\* new Date('YYYY-MM-DD').getTime(): midnight UTC of that day, in hours
GetTime(date) == date * 24

PropertySnapshots ==
    {<<>>} \cup {<<[id |-> SnapshotPropertyId, archive |-> a]>> : a \in BOOLEAN}

TenantSnapshots(rents) ==
    UNION {{[i \in 1..n |-> [id |-> SnapshotTenantIds[i],
                             propertyId |-> SnapshotPropertyId,
                             archive |-> b[i].archive, rent |-> b[i].rent]] :
              b \in [1..n -> [archive : BOOLEAN, rent : rents]]} :
           n \in 0..Len(SnapshotTenantIds)}

PaymentSnapshots(amounts, dates, statuses, flags) ==
    UNION {{[i \in 1..n |-> [id |-> SnapshotPaymentIds[i],
                             tenantId |-> b[i].tenantId, amount |-> b[i].amount,
                             date |-> b[i].date, status |-> b[i].status,
                             archive |-> b[i].archive]] :
              b \in [1..n -> [tenantId : SnapshotTenantIdSet, amount : amounts,
                              date : dates, status : statuses, archive : flags]]} :
           n \in 0..MaxPayments}

\* Array.prototype.sort((a, b) => new Date(b.date).getTime() -
\* new Date(a.date).getTime()): latest first, equal dates in array order.
RECURSIVE InsertByDateDesc(_, _)
InsertByDateDesc(p, sorted) ==
    IF sorted = <<>> THEN <<p>>
    ELSE IF GetTime(Head(sorted).date) <= GetTime(p.date) THEN <<p>> \o sorted
    ELSE <<Head(sorted)>> \o InsertByDateDesc(p, Tail(sorted))

RECURSIVE SortByDateDesc(_)
SortByDateDesc(arr) ==
    IF arr = <<>> THEN <<>>
    ELSE InsertByDateDesc(Head(arr), SortByDateDesc(Tail(arr)))

\* TenantList.vue getLatestRentStatus(tenantId)
getLatestRentStatus(tenantId) ==
    LET tenantObj == FindTenant(tenantId)
        tenantPayments ==
            SortByDateDesc(SelectSeq(payments, LAMBDA p : p.tenantId = tenantId))
    IN  IF tenantObj = Undefined THEN "n/a"
        ELSE IF isEffectivelyArchived(tenantObj) THEN "archive"
        ELSE IF Len(tenantPayments) > 0 THEN tenantPayments[1].status
        ELSE "no payments"

\* AlertsTodo.vue getLatestPaymentStatus(tenantId); the statuses of the
\* payment form are lower case already, every stored date is a valid one.
getLatestPaymentStatus(tenantId) ==
    LET tenantPayments ==
            SortByDateDesc(SelectSeq(payments, LAMBDA p : p.tenantId = tenantId))
    IN  IF Len(payments) = 0 THEN "null"
        ELSE IF Len(tenantPayments) > 0 THEN ToLowerCase(tenantPayments[1].status)
        ELSE "null"

\* RentTracking.vue paymentsWithDetails: for every payment its id and
\* isEffectivelyArchived, latest payment first.
PaymentDetail(payment) ==
    [id |-> payment.id, date |-> payment.date,
     isEffectivelyArchived |->
         payment.archive \/ isTenantEffectivelyArchived(FindTenant(payment.tenantId))]

paymentsWithDetails ==
    SortByDateDesc([i \in 1..Len(payments) |-> PaymentDetail(payments[i])])

StatusDates == {1, 2}
StatusValues == {"paid", "overdue"}

InitStatus ==
    /\ store = [coll \in Collections |-> <<>>]
    /\ uuid = 0
    /\ calls = [c \in Callers \cup Collections |-> NoCall]
    /\ seeding = "done"
    /\ dbPromise = "fulfilled"
    /\ auth = NoAuth
    /\ view = "none"
    /\ loaded = 3
    /\ properties \in PropertySnapshots
    /\ tenants \in TenantSnapshots({1})
    /\ payments \in PaymentSnapshots({1}, StatusDates, StatusValues, BOOLEAN)
    /\ ret = NoRet

\* The tenant list renders a row: {{ getLatestRentStatus(tenant.id) }}.
RenderRentStatus ==
    /\ \E i \in 1..Len(tenants) :
          ret' = [op |-> "getLatestRentStatus",
                  result |-> getLatestRentStatus(tenants[i].id), id |-> tenants[i].id]
    /\ UNCHANGED <<store, uuid, calls, seeding, dbPromise, auth, view, loaded, properties, tenants, payments>>

\* overdueTenants of the alerts view asks for the latest status of a tenant
\* that is not effectively archived.
ComputeOverdue ==
    /\ \E i \in 1..Len(tenants) :
          /\ ~isTenantEffectivelyArchived(tenants[i])
          /\ ret' = [op |-> "getLatestPaymentStatus",
                     result |-> getLatestPaymentStatus(tenants[i].id),
                     id |-> tenants[i].id]
    /\ UNCHANGED <<store, uuid, calls, seeding, dbPromise, auth, view, loaded, properties, tenants, payments>>

\* The rent view renders its list of payments.
RenderPayments ==
    /\ ret' = [op |-> "paymentsWithDetails", result |-> paymentsWithDetails,
               id |-> "none"]
    /\ UNCHANGED <<store, uuid, calls, seeding, dbPromise, auth, view, loaded, properties, tenants, payments>>

NextStatus ==
    \/ RenderRentStatus
    \/ ComputeOverdue
    \/ RenderPayments

SpecStatus == InitStatus /\ [][NextStatus]_vars

\* Stated without the helpers: the listed tenant with this id, if any, has
\* its own flag set or a listed, archived property.
TenantArchivedInSnapshot(id) ==
    \E i \in 1..Len(tenants) :
       /\ tenants[i].id = id
       /\ tenants[i].archive \/ PropertyArchivedIn(properties, tenants[i].propertyId)

PaymentsOfTenant(id) == {i \in 1..Len(payments) : payments[i].tenantId = id}

\* ----------------------------------------------------------------- C11
\* C11: for a tenant that is effectively archived the latest payment status
\* is the sentinel "archived", whatever payments the tenant has.
C11_ArchivedSentinel ==
    (ret.op = "getLatestRentStatus" /\ TenantArchivedInSnapshot(ret.id))
        => ret.result = "archived"

\* ----------------------------------------------------------------- C12
\* C12: for a tenant that is not effectively archived the latest payment
\* status is 'no payments' when no payment names the tenant, and otherwise
\* the status of one of the tenant's payments of the greatest date.
C12_LatestStatus ==
    (ret.op \in {"getLatestRentStatus", "getLatestPaymentStatus"}
       /\ ret.id \in Ids(tenants) /\ ~TenantArchivedInSnapshot(ret.id))
        => IF PaymentsOfTenant(ret.id) = {}
           THEN ret.result = "no payments"
           ELSE \E i \in PaymentsOfTenant(ret.id) :
                   /\ \A j \in PaymentsOfTenant(ret.id) : payments[j].date <= payments[i].date
                   /\ ret.result = payments[i].status

\* ----------------------------------------------------------------- C13
\* C13: a payment is effectively archived exactly when its own flag is set,
\* or no listed tenant has its tenantId, or that tenant's flag is set, or
\* that tenant's property is archived.
C13_PaymentEffectivelyArchived ==
    ret.op = "paymentsWithDetails"
        => /\ Len(ret.result) = Len(payments)
           /\ \A i \in 1..Len(payments) :
                 \E k \in 1..Len(ret.result) :
                    /\ ret.result[k].id = payments[i].id
                    /\ ret.result[k].isEffectivelyArchived
                          <=> \/ payments[i].archive
                              \/ payments[i].tenantId \notin Ids(tenants)
                              \/ TenantArchivedInSnapshot(payments[i].tenantId)

C13_Witness ==
    /\ ret.op = "paymentsWithDetails"
    /\ \E i \in 1..Len(payments), k \in 1..Len(ret.result) :
          /\ ret.result[k].id = payments[i].id
          /\ ~payments[i].archive
          /\ payments[i].tenantId \notin Ids(tenants)
          /\ ret.result[k].isEffectivelyArchived

\* -------------------------------------------------- monthly rent summary
\* AlertsTodo.vue monthlyRentStatus.  Days are numbered; the current
\* calendar month of the model is the days CurrentMonth.first .. last, the
\* day before it is the last of the previous month, the day after it the
\* first of the next.  Instants are hours since midnight UTC of day 0.

CurrentMonth == [first |-> 1, last |-> 2]
SummaryDates == {0, 1, 2, 3}

\* Hours the browser's local time is ahead of UTC.
TimezoneOffsets == {0 - 5, 0, 2}

\* new Date(currentYear, currentMonth, 1): local midnight of the first day
StartOfMonth(tz) == CurrentMonth.first * 24 - tz

\* new Date(currentYear, currentMonth + 1, 0), setHours(23, 59, 59, 999):
\* the last instant of the last day in local time (its last full hour here)
EndOfMonth(tz) == (CurrentMonth.last + 1) * 24 - tz - 1

RECURSIVE SumOf(_, _)
\* arr.reduce((sum, x) => sum + (x[field] || 0), 0)
SumOf(arr, field) ==
    IF arr = <<>> THEN 0 ELSE Head(arr)[field] + SumOf(Tail(arr), field)

\* sumPaidByTenantThisMonth >= tenant.rent
PaidThisMonth(tenant, paymentsThisMonth) ==
    SumOf(SelectSeq(paymentsThisMonth, LAMBDA p : p.tenantId = tenant.id), "amount")
        >= tenant.rent

monthlyRentStatus(tz) ==
    LET isLoading == loaded = 0
        activeTenants ==
            SelectSeq(tenants, LAMBDA t : ~isTenantEffectivelyArchived(t) /\ t.rent > 0)
        paymentsThisMonth ==
            SelectSeq(payments, LAMBDA p : /\ GetTime(p.date) >= StartOfMonth(tz)
                                           /\ GetTime(p.date) <= EndOfMonth(tz))
    IN  IF isLoading \/ Len(tenants) = 0
        THEN [activeTenantsCount |-> 0, paidTenantsCount |-> 0,
              totalExpectedRent |-> 0, totalCollectedThisMonth |-> 0]
        ELSE [activeTenantsCount |-> Len(activeTenants),
              paidTenantsCount |->
                  Len(SelectSeq(activeTenants,
                                LAMBDA t : PaidThisMonth(t, paymentsThisMonth))),
              totalExpectedRent |-> SumOf(activeTenants, "rent"),
              totalCollectedThisMonth |-> SumOf(paymentsThisMonth, "amount")]

\* The alerts view after its onMounted, or before (nothing loaded yet).
InitSummary ==
    /\ store = [coll \in Collections |-> <<>>]
    /\ uuid = 0
    /\ calls = [c \in Callers \cup Collections |-> NoCall]
    /\ seeding = "done"
    /\ dbPromise = "fulfilled"
    /\ auth = NoAuth
    /\ view = "alerts"
    /\ loaded \in {0, 4}
    /\ properties \in PropertySnapshots
    /\ tenants \in TenantSnapshots({0, 2})
    /\ payments \in PaymentSnapshots({1, 2}, SummaryDates, {"paid"}, {FALSE})
    /\ loaded = 0 => (properties = <<>> /\ tenants = <<>> /\ payments = <<>>)
    /\ ret = NoRet

\* The summary card is rendered, in a browser of some time zone.
RenderMonthlyRentStatus ==
    /\ \E tz \in TimezoneOffsets :
          ret' = [op |-> "monthlyRentStatus", result |-> monthlyRentStatus(tz),
                  id |-> "none", timezone |-> tz]
    /\ UNCHANGED <<store, uuid, calls, seeding, dbPromise, auth, view, loaded, properties, tenants, payments>>

NextSummary == RenderMonthlyRentStatus

SpecSummary == InitSummary /\ [][NextSummary]_vars

\* Stated without the helpers.
InMonth(p) == p.date >= CurrentMonth.first /\ p.date <= CurrentMonth.last
ActiveInSnapshot == {i \in 1..Len(tenants) :
                        ~TenantArchivedInSnapshot(tenants[i].id) /\ tenants[i].rent > 0}
RECURSIVE SumOver(_, _)
SumOver(f, S) ==
    IF S = {} THEN 0
    ELSE LET x == CHOOSE y \in S : TRUE IN f[x] + SumOver(f, S \ {x})
InMonthSumOf(tenantId) ==
    SumOver([i \in 1..Len(payments) |-> payments[i].amount],
            {i \in 1..Len(payments) : payments[i].tenantId = tenantId /\ InMonth(payments[i])})
InMonthSum ==
    SumOver([i \in 1..Len(payments) |-> payments[i].amount],
            {i \in 1..Len(payments) : InMonth(payments[i])})

\* ----------------------------------------------------------------- C14
\* C14: activeTenantsCount counts the tenants that are not effectively
\* archived and have rent > 0, totalExpectedRent is the sum of their rents,
\* paidTenantsCount counts those of them whose payments dated within the
\* current calendar month sum to at least their rent; so paidTenantsCount
\* is at most activeTenantsCount.
C14_MonthlySummary ==
    (ret.op = "monthlyRentStatus" /\ loaded # 0)
        => /\ ret.result.activeTenantsCount = Cardinality(ActiveInSnapshot)
           /\ ret.result.totalExpectedRent =
                 SumOver([i \in 1..Len(tenants) |-> tenants[i].rent], ActiveInSnapshot)
           /\ ret.result.paidTenantsCount =
                 Cardinality({i \in ActiveInSnapshot :
                                 InMonthSumOf(tenants[i].id) >= tenants[i].rent})
           /\ ret.result.paidTenantsCount <= ret.result.activeTenantsCount

\* ----------------------------------------------------------------- C15
\* C15: totalCollectedThisMonth is the sum of the amounts of all payments
\* dated from the first to the last day of the current calendar month,
\* whatever tenant they name and also when no tenant is listed.
C15_TotalCollected ==
    (ret.op = "monthlyRentStatus" /\ loaded # 0)
        => ret.result.totalCollectedThisMonth = InMonthSum

\* ----------------------------------------------------------------- C16
\* C16: a repository write changes its own collection only.  deleteProperty
\* and toggleArchiveProperty (updateProperty) leave the stored tenants and
\* payments as they are, so the tenants of a deleted or archived property
\* keep their propertyId and their own flag; the handlers of the tenant and
\* rent views that make one kind of write change that collection only.
OnlyChanges(colls) == \A coll \in Collections \ colls : store'[coll] = store[coll]

C16_WritesOwnCollectionOnly ==
    [][/\ ret'.op \in {"addOrUpdateProperty", "toggleArchiveProperty", "deleteProperty"}
             => OnlyChanges({"properties"})
       /\ ret'.op \in {"addOrUpdateTenant", "toggleArchiveTenant"}
             => OnlyChanges({"tenants"})
       /\ ret'.op \in {"addOrUpdatePayment", "deletePayment"}
             => OnlyChanges({"payments"})]_vars

C16_Witness ==
    /\ view = "properties"
    /\ ret.op = "deleteProperty"
    /\ ret.id \notin Ids(store["properties"])
    /\ \E i \in 1..Len(store["tenants"]) :
          /\ store["tenants"][i].propertyId = ret.id
          /\ ~store["tenants"][i].archive

\* ----------------------------------------------------------------- C17
\* C17: a repository operation whose storage read or write throws rejects:
\* the caller gets the failure, not a normal result.
C17_FailurePropagates ==
    /\ [](\A c \in Callers :
            (calls[c].pc = "done" /\ calls[c].readFailed) => calls[c].result = "throw")
    /\ [][\A c \in Callers :
             (calls[c].pc = "set" /\ calls'[c].pc = "done" /\ store' = store
                /\ WrittenValue(store, calls[c]) # store[calls[c].coll])
                => calls'[c].result = "throw"]_vars

\* ------------------------------------------------- opening the database
\* db.ts opens the database once, when the module is loaded; dbPromise is
\* that one attempt.  Every operation of db starts with
\* `await ensureDbReady()`, outside its try block.

ConnectionFailed == "Database connection failed."

\* (mutant) the error of the open is logged and the operation goes on
ensureDbReadyLenient(promise) == "return"

\* ensureDbReady, once dbPromise has settled: returns, or throws
\* new Error("Database connection failed.")
ensureDbReady(promise) == IF promise = "rejected" THEN "throw" ELSE "return"

InitOpen ==
    /\ store = [coll \in Collections |-> <<>>]
    /\ uuid = 0
    /\ calls = [c \in Callers \cup Collections |-> NoCall]
    /\ seeding = "idle"
    /\ dbPromise = "pending"
    /\ auth = NoAuth
    /\ view = "none"
    /\ loaded = 0
    /\ properties = <<>>
    /\ tenants = <<>>
    /\ payments = <<>>
    /\ ret = NoRet

\* request.onsuccess / request.onerror of indexedDB.open
OpenDbSucceeds ==
    /\ dbPromise = "pending"
    /\ dbPromise' = "fulfilled"
    /\ UNCHANGED <<store, uuid, calls, viewVars, seeding, auth>>

OpenDbFails ==
    /\ dbPromise = "pending"
    /\ dbPromise' = "rejected"
    /\ UNCHANGED <<store, uuid, calls, viewVars, seeding, auth>>

OpenCollections == {"tenants", "users"}

\* What callers ask of db: a read, or a write with a record.
OpenRequests ==
    [op : {"get"}, coll : OpenCollections, rec : {[id |-> "none"]}]
    \cup {[op |-> "add", coll |-> "tenants", rec |-> r] :
            r \in TenantRecords({RandomUUID(uuid + 1)})}
    \cup {[op |-> o, coll |-> "tenants", rec |-> store["tenants"][i]] :
            o \in {"update", "delete"}, i \in 1..Len(store["tenants"])}
    \cup {[op |-> "addUser", coll |-> "users",
           rec |-> [id |-> RandomUUID(uuid + 1), username |-> "alice",
                    password |-> "pw1"]]}

\* An operation of db is called: it awaits ensureDbReady().
CallDb(c) ==
    /\ calls[c].pc \in {"idle", "done"}
    /\ \E req \in OpenRequests :
          /\ req.op \in {"add", "addUser"}
                => (uuid < MaxUuid /\ Len(store[req.coll]) < MaxLen)
          /\ uuid' = IF req.op \in {"add", "addUser"} THEN uuid + 1 ELSE uuid
          /\ calls' = [calls EXCEPT ![c] =
                [op |-> req.op, coll |-> req.coll, rec |-> req.rec, pc |-> "opening",
                 read |-> <<>>, readFailed |-> FALSE, result |-> "pending"]]
    /\ UNCHANGED <<store, viewVars, seeding, dbPromise, auth>>

\* dbPromise has settled and the operation's await ensureDbReady() ends: the
\* operation throws, or goes on to its get.
EnsureDbReadyEnds(c) ==
    /\ calls[c].pc = "opening"
    /\ dbPromise # "pending"
    /\ IF ensureDbReady(dbPromise) = "throw"
       THEN calls' = [calls EXCEPT ![c].pc = "done", ![c].result = ConnectionFailed]
       ELSE \E getFails \in BOOLEAN :
               calls' = [calls EXCEPT ![c] =
                  IF calls[c].op = "get"
                  THEN [calls[c] EXCEPT !.pc = "done", !.result = "ok",
                                        !.readFailed = getFails]
                  ELSE Started(calls[c].op, calls[c].coll, calls[c].rec, getFails)]
    /\ UNCHANGED <<store, uuid, viewVars, seeding, dbPromise, auth>>

NextOpen ==
    \/ OpenDbSucceeds
    \/ OpenDbFails
    \/ \E c \in Callers : CallDb(c) \/ EnsureDbReadyEnds(c) \/ RepoSet(c)

SpecOpen == InitOpen /\ [][NextOpen]_vars

\* ----------------------------------------------------------------- C18
\* C18: the database is opened once and the outcome stays; no operation
\* gets past its wait before the open has settled; once the open has failed
\* every operation, read or write, ends with 'Database connection failed.',
\* none reaches a get or a set, and the stored data never changes.
C18_OpenedOnce ==
    /\ [][dbPromise # "pending" => dbPromise' = dbPromise]_vars
    /\ [](dbPromise = "pending"
            => \A c \in Callers : calls[c].pc \in {"idle", "opening"})
    /\ [](dbPromise = "rejected"
            => \A c \in Callers :
                  /\ calls[c].pc \in {"idle", "opening", "done"}
                  /\ calls[c].pc = "done"
                        => (calls[c].result = ConnectionFailed /\ calls[c].read = <<>>
                              /\ ~calls[c].readFailed))
    /\ [][dbPromise = "rejected" => store' = store]_vars

C18_Witness ==
    /\ dbPromise = "rejected"
    /\ \E c, d \in Callers :
          /\ calls[c].pc = "done" /\ calls[c].op = "get"
          /\ calls[c].result = ConnectionFailed
          /\ calls[d].pc = "done" /\ calls[d].op = "addUser"
          /\ calls[d].result = ConnectionFailed

\* ----------------------------------------------------------------- C19
\* C19: an update or a delete whose id matches no stored record stores
\* nothing, leaves the collection as it is and returns normally, for users as
\* for the other entities.
TargetMissing(c) ==
    /\ calls[c].pc \in {"idle", "done"}
    /\ calls'[c] # calls[c]
    /\ calls'[c].op \in {"update", "delete", "updateUser"}
    /\ ~calls'[c].readFailed
    /\ calls'[c].rec.id \notin Ids(store[calls'[c].coll])

C19_MissingTargetNoOp ==
    [][\A c \in Callers :
          TargetMissing(c) => /\ calls'[c].pc = "done"
                              /\ store' = store
                              /\ calls'[c].result = "ok"]_vars

\* ----------------------------------------------------------------- C20
\* C20: update called twice in succession with the same record leaves the
\* collection as update called once does; for every stored collection of
\* properties, tenants and payments and for a record that replaces a stored
\* one (its flag inverted) as for one whose id is not stored.
UpdateRecords(coll) ==
    {[store[coll][i] EXCEPT !.archive = ~@] : i \in 1..Len(store[coll])}
    \cup {[id |-> "missing", archive |-> TRUE]}

C20_UpdateIdempotent ==
    \A coll \in {"properties", "tenants", "payments"} :
       \A rec \in UpdateRecords(coll) :
          LET once == DbCall(store, "update", coll, rec)
          IN  DbCall(once, "update", coll, rec) = once

\* toggleArchiveProperty has just updated a stored property; the same
\* update again changes nothing.
C20_Witness ==
    /\ view = "properties"
    /\ ret.op = "toggleArchiveProperty"
    /\ \E i \in 1..Len(store["properties"]) :
          /\ store["properties"][i].id = ret.id
          /\ store["properties"][i].archive
          /\ DbCall(store, "update", "properties", store["properties"][i]) = store
          /\ DbCall(store, "update", "properties",
                    [store["properties"][i] EXCEPT !.archive = FALSE]) # store

\* -------------------------------------------- reading a collection, raw

\* What idb-keyval can hold under a key: nothing (get resolves undefined),
\* a value that is not an array (null, a number, a string, an object), or an
\* array of records.
ArrayOf(items) == [type |-> "array", items |-> items]
RawItems == {<<>>, <<[id |-> "a"]>>, <<[id |-> "a"], [id |-> "b"]>>}
RawValues ==
    {[type |-> "undefined"], [type |-> "null"], [type |-> "number", truthy |-> FALSE],
     [type |-> "number", truthy |-> TRUE], [type |-> "string", truthy |-> FALSE],
     [type |-> "string", truthy |-> TRUE], [type |-> "object"]}
    \cup {ArrayOf(items) : items \in RawItems}

\* JavaScript truthiness of a stored value: undefined, null, 0 and '' are
\* falsy, every object and array is truthy.
Truthy(v) ==
    CASE v.type \in {"undefined", "null"} -> FALSE
      [] v.type \in {"number", "string"} -> v.truthy
      [] OTHER -> TRUE

\* `await get(key) || []`
GetOrEmpty(v) == IF Truthy(v) THEN v ELSE ArrayOf(<<>>)

\* (mutant) the value read is returned without Array.isArray
getRawUnchecked(raw, getFails) ==
    IF getFails THEN ArrayOf(<<>>) ELSE GetOrEmpty(raw)

\* db.getX on a raw stored value: `Array.isArray(x) ? x : []`, and [] from
\* the catch block when get rejects.
getRaw(raw, getFails) ==
    IF getFails THEN ArrayOf(<<>>)
    ELSE LET x == GetOrEmpty(raw)
         IN  IF x.type = "array" THEN x ELSE ArrayOf(<<>>)

RawCollections == {"properties", "tenants", "payments"}

InitList ==
    /\ store \in [RawCollections -> RawValues]
    /\ uuid = 0
    /\ calls = [c \in Callers \cup Collections |-> NoCall]
    /\ seeding = "done"
    /\ dbPromise = "fulfilled"
    /\ auth = NoAuth
    /\ view = "none"
    /\ loaded = 0
    /\ properties = <<>>
    /\ tenants = <<>>
    /\ payments = <<>>
    /\ ret = NoRet

\* db.getProperties / db.getTenants / db.getPayments, each reading its key.
ListCollection ==
    /\ \E coll \in RawCollections, getFails \in BOOLEAN :
          ret' = [op |-> "list", id |-> coll, failed |-> getFails,
                  result |-> getRaw(store[coll], getFails)]
    /\ UNCHANGED <<store, uuid, calls, seeding, dbPromise, auth, view, loaded, properties, tenants, payments>>

NextList == ListCollection
SpecList == InitList /\ [][NextList]_vars

\* C21: list() of a collection whose stored value is absent or is not an
\* array returns the empty array (and an array it always returns), and what
\* list() returns for one collection is the same whatever is stored under
\* the keys of the other collections.
C21_ListTolerant ==
    /\ ret.op = "list" =>
          /\ ret.result.type = "array"
          /\ store[ret.id].type # "array" => ret.result.items = <<>>
          /\ (store[ret.id].type = "array" /\ ~ret.failed) => ret.result = store[ret.id]
    /\ \A coll \in RawCollections : \A other \in RawCollections \ {coll} :
          \A v \in RawValues, getFails \in BOOLEAN :
             getRaw([store EXCEPT ![other] = v][coll], getFails)
                = getRaw(store[coll], getFails)

\* list() of a collection whose stored value is a truthy non-array has
\* returned, while another collection holds records that a list() returns.
C21_Witness ==
    /\ ret.op = "list"
    /\ store[ret.id].type \in {"object", "string"}
    /\ Truthy(store[ret.id])
    /\ ~ret.failed
    /\ ret.result = ArrayOf(<<>>)
    /\ \E other \in RawCollections \ {ret.id} :
          /\ store[other].type = "array"
          /\ getRaw(store[other], FALSE).items # <<>>

\* ----------------------------------------------------------------- C22
\* C22: a submission that lacks a required field (a tenant without name,
\* property, floor or room; a payment without tenant, amount, date, status
\* or month; a property without name or address) ends as invalid with no
\* repository call, and the handler that ends so leaves every collection,
\* the ids handed out and the calls in flight as they were.
C22_InvalidSubmissionStopsEarly ==
    /\ [](\A details \in [name : Texts, floor : Floors, room : Texts],
             propertyId \in FormPropertyIds :
             (details.name = "" \/ propertyId = "" \/ details.floor = 0
                \/ details.room = "")
             => LET sub == TenantSubmission(details, propertyId, 1, FALSE, "",
                                            FALSE, "new")
                IN  sub.op = "none" /\ sub.result = "invalid")
    /\ [](\A tenantId \in FormTenantIds, amount \in FormAmounts,
             status \in FormStatuses, details \in PaymentDetails :
             (tenantId = "" \/ amount = Null \/ details.date = "" \/ status = ""
                \/ details.month = "")
             => LET sub == PaymentSubmission(tenantId, amount, status, details,
                                             FALSE, "", TRUE, "new")
                IN  sub.op = "none" /\ sub.result = "invalid")
    /\ [](\A name, address \in Texts :
             (name = "" \/ address = "") => MissingPropertyDetails(name, address))
    /\ [][(ret'.result = "invalid"
             /\ ret'.op \in {"addOrUpdateTenant", "addOrUpdatePayment",
                             "addOrUpdateProperty"})
          => (store' = store /\ uuid' = uuid /\ calls' = calls)]_vars

\* A payment form with a tenant that may be paid for but no month has been
\* turned down, while records are stored.
C22_Witness ==
    /\ view = "rent"
    /\ ret.op = "addOrUpdatePayment"
    /\ ret.result = "invalid"
    /\ ret.id # ""
    /\ FindTenant(ret.id) # Undefined
    /\ ~isTenantEffectivelyArchived(FindTenant(ret.id))
    /\ store["tenants"] # <<>>

\* ------------------------------------------------ the session, useAuth.ts

\* The user records of the session model.
UserAlice == [id |-> "u-1", username |-> "Alice", name |-> "Ann", password |-> "secret1"]
UserBob == [id |-> "u-2", username |-> "bob", name |-> "Bea", password |-> "secret2"]
UserSnapshots == {<<>>, <<UserAlice>>, <<UserAlice, UserBob>>}

\* What the login and register forms can hold.
TypedUsernames == {"alice", "bob"}
TypedPasswords == {"secret1", "secret2"}
RegisterUsernames == {"alice"}

\* String.prototype.length of the passwords the model uses.
PasswordLength(pw) ==
    CASE pw = "" -> 0
      [] pw = "short" -> 5
      [] pw = "secret1" -> 7
      [] pw = "secret2" -> 7
      [] pw = "newsecret" -> 9

\* The updates ProfileView passes to updateProfile: name is undefined or the
\* text of the name field, the passwords are '' when not given.
ProfileUpdates ==
    [name : {"undefined", "Zoe"}, currentPassword : {"", "secret1", "secret2"},
     newPassword : {"", "short", "newsecret"}]

\* db.getUserByUsername once ensureDbReady has returned: the first user whose
\* name is the given one ignoring case, undefined when there is none (or when
\* the get of getUsers threw and [] was returned).
getUserByUsername(st, username, getFails) ==
    LET users == GetCollection(st, "users", getFails)
        i == FindUserIndex(users, username)
    IN  IF i = 0 THEN Undefined ELSE users[i]

\* (mutant) isAuthenticated starts as false
AuthAtStartSignedOut(initialUsername) ==
    [session |-> initialUsername,
     isAuthenticated |-> FALSE,
     currentUser |-> NoUser,
     authError |-> "null",
     isLoading |-> initialUsername # "",
     isFetchingInitialUser |-> initialUsername # "",
     fetching |-> initialUsername,
     login |-> <<>>,
     update |-> <<>>]

\* The module state useAuth.ts builds when it is loaded with the session
\* store holding initialUsername ('' for none): the fetch of the user is
\* issued when there is one.
AuthAtStart(initialUsername) ==
    [session |-> initialUsername,
     isAuthenticated |-> initialUsername # "",
     currentUser |-> NoUser,
     authError |-> "null",
     isLoading |-> initialUsername # "",
     isFetchingInitialUser |-> initialUsername # "",
     fetching |-> initialUsername,
     login |-> <<>>,
     update |-> <<>>]

InitAuth ==
    /\ \E users \in UserSnapshots :
          store = [coll \in Collections |-> IF coll = "users" THEN users ELSE <<>>]
    /\ uuid = 0
    /\ calls = [c \in Callers \cup Collections |-> NoCall]
    /\ seeding = "done"
    /\ dbPromise \in {"fulfilled", "rejected"}
    /\ \E initialUsername \in {"", "Alice", "bob"} : auth = AuthAtStart(initialUsername)
    /\ view = "none"
    /\ loaded = 0
    /\ properties = <<>>
    /\ tenants = <<>>
    /\ payments = <<>>
    /\ ret = NoRet

\* The page is loaded again: the module state is built anew from the session
\* store, whatever was in flight is gone.
Reload ==
    /\ auth' = AuthAtStart(auth.session)
    /\ ret' = [op |-> "reload", result |-> "none", id |-> "none"]
    /\ UNCHANGED <<store, uuid, calls, seeding, dbPromise, view, loaded, properties, tenants, payments>>

\* (mutant) the record found is not kept
InitialFetchOutcomeForgetful(user, failed) ==
    IF failed \/ user = Undefined
    THEN [auth EXCEPT !.session = "", !.isAuthenticated = FALSE]
    ELSE auth

\* The then / catch handlers of the fetch issued at load.
InitialFetchOutcome(user, failed) ==
    IF failed \/ user = Undefined
    THEN [auth EXCEPT !.session = "", !.isAuthenticated = FALSE]
    ELSE [auth EXCEPT !.currentUser = user]

\* db.getUserByUsername(initialUsername) settles: then or catch, and finally.
InitialFetchSettles ==
    /\ auth.fetching # ""
    /\ \E getFails \in BOOLEAN :
          LET failed == ensureDbReady(dbPromise) = "throw"
              user == IF failed THEN Undefined
                      ELSE getUserByUsername(store, auth.fetching, getFails)
          IN  /\ auth' = [InitialFetchOutcome(user, failed) EXCEPT
                             !.isLoading = FALSE, !.isFetchingInitialUser = FALSE,
                             !.fetching = ""]
              /\ ret' = [op |-> "initialFetch",
                         result |-> IF failed THEN "failed"
                                    ELSE IF user = Undefined THEN "missing" ELSE "found",
                         id |-> "none"]
    /\ UNCHANGED <<store, uuid, calls, seeding, dbPromise, view, loaded, properties, tenants, payments>>

\* login(username, password) is called from the login page, which the router
\* shows only while the session store holds no username: up to its await.
login ==
    /\ auth.session = ""
    /\ auth.login = <<>>
    /\ \E username \in TypedUsernames, password \in TypedPasswords :
          auth' = [auth EXCEPT !.isLoading = TRUE, !.authError = "null",
                               !.login = <<[username |-> username, password |-> password]>>]
    /\ UNCHANGED <<store, uuid, calls, seeding, dbPromise, view, loaded, properties, tenants, payments, ret>>

\* (mutant) the password is not compared
LoginOutcomeAnyPassword(user, password, failed) ==
    IF failed THEN [ok |-> FALSE, authError |-> "An error occurred during login."]
    ELSE IF user # Undefined
    THEN [ok |-> TRUE, authError |-> "null"]
    ELSE [ok |-> FALSE, authError |-> "Invalid username or password."]

\* What login does with the user it got: `user && user.password === password`.
LoginOutcome(user, password, failed) ==
    IF failed THEN [ok |-> FALSE, authError |-> "An error occurred during login."]
    ELSE IF user # Undefined /\ user.password = password
    THEN [ok |-> TRUE, authError |-> "null"]
    ELSE [ok |-> FALSE, authError |-> "Invalid username or password."]

\* login after its await: the rest of the try block, catch and finally.
\* ret keeps what was typed and whether the read of the users threw.
loginSettles ==
    /\ auth.login # <<>>
    /\ \E getFails \in BOOLEAN :
          LET typed == auth.login[1]
              failed == ensureDbReady(dbPromise) = "throw"
              user == IF failed THEN Undefined
                      ELSE getUserByUsername(store, typed.username, getFails)
              out == LoginOutcome(user, typed.password, failed)
          IN  /\ auth' = IF out.ok
                         THEN [auth EXCEPT !.currentUser = user, !.isAuthenticated = TRUE,
                                           !.session = user.username,
                                           !.isLoading = FALSE, !.login = <<>>]
                         ELSE [auth EXCEPT !.authError = out.authError,
                                           !.isLoading = FALSE, !.login = <<>>]
              /\ ret' = [op |-> "login", result |-> IF out.ok THEN "true" ELSE "false",
                         id |-> typed.username, password |-> typed.password,
                         readFailed |-> failed \/ getFails]
    /\ UNCHANGED <<store, uuid, calls, seeding, dbPromise, view, loaded, properties, tenants, payments>>

\* logout(), from the button the header shows while isAuthenticated.
logout ==
    /\ auth.isAuthenticated
    /\ auth' = [auth EXCEPT !.currentUser = NoUser, !.isAuthenticated = FALSE,
                            !.authError = "null", !.session = ""]
    /\ ret' = [op |-> "logout", result |-> "none", id |-> "none"]
    /\ UNCHANGED <<store, uuid, calls, seeding, dbPromise, view, loaded, properties, tenants, payments>>

\* register(username, name, password) from the register page, with its
\* db.addUser running alone.
register ==
    /\ auth.session = ""
    /\ Len(store["users"]) < MaxLen
    /\ uuid < MaxUuid
    /\ uuid' = uuid + 1
    /\ \E username \in RegisterUsernames, getFails, setFails \in BOOLEAN :
          LET newUser == [id |-> RandomUUID(uuid + 1), username |-> username,
                          name |-> "Ann", password |-> "secret1"]
              failed == ensureDbReady(dbPromise) = "throw"
              next == AddUserAfterRead(GetCollection(store, "users", getFails), newUser)
              success == ~failed /\ next.write /\ ~setFails
          IN  /\ store' = IF success THEN [store EXCEPT !["users"] = next.data] ELSE store
              /\ auth' = [auth EXCEPT !.isLoading = FALSE,
                                      !.authError = IF success THEN "null"
                                                    ELSE "Registration failed."]
              /\ ret' = [op |-> "register", result |-> IF success THEN "true" ELSE "false",
                         id |-> "none"]
    /\ UNCHANGED <<calls, seeding, dbPromise, view, loaded, properties, tenants, payments>>

\* (mutant) the current password is not compared
ProfileCheckAnyPassword(updates) ==
    IF auth.currentUser = NoUser \/ ~auth.isAuthenticated
    THEN "User not authenticated."
    ELSE IF updates.newPassword = "" THEN "ok"
    ELSE IF updates.currentPassword = ""
    THEN "Current password is required to set a new password."
    ELSE IF PasswordLength(updates.newPassword) < 6
    THEN "New password must be at least 6 characters long."
    ELSE "ok"

\* updateProfile up to its db call: the message it returns early with, or ok.
ProfileCheck(updates) ==
    IF auth.currentUser = NoUser \/ ~auth.isAuthenticated
    THEN "User not authenticated."
    ELSE IF updates.newPassword = "" THEN "ok"
    ELSE IF updates.currentPassword = ""
    THEN "Current password is required to set a new password."
    ELSE IF updates.currentPassword # auth.currentUser.password
    THEN "Incorrect current password."
    ELSE IF PasswordLength(updates.newPassword) < 6
    THEN "New password must be at least 6 characters long."
    ELSE "ok"

\* The copy of currentUser updateProfile hands to db.updateUser.
UserToUpdate(updates) ==
    LET withPassword == IF updates.newPassword # ""
                        THEN [auth.currentUser EXCEPT !.password = updates.newPassword]
                        ELSE auth.currentUser
    IN  IF updates.name # "undefined" /\ updates.name # withPassword.name
        THEN [withPassword EXCEPT !.name = updates.name]
        ELSE withPassword

\* updateProfile(updates) is called from the profile form, which is shown
\* when currentUser is set and can be submitted while isLoading is false: up
\* to its await, or to its early return.  The call in flight is kept with
\* the new password it was given.
updateProfile ==
    /\ auth.currentUser # NoUser
    /\ ~auth.isLoading
    /\ auth.update = <<>>
    /\ \E updates \in ProfileUpdates :
          LET check == ProfileCheck(updates)
          IN  IF check = "User not authenticated."
              THEN /\ auth' = auth
                   /\ ret' = [op |-> "updateProfile", result |-> check,
                              id |-> "none"]
              ELSE IF check # "ok"
              THEN /\ auth' = [auth EXCEPT !.authError = "null", !.isLoading = FALSE]
                   /\ ret' = [op |-> "updateProfile", result |-> check,
                              id |-> "none"]
              ELSE /\ auth' = [auth EXCEPT !.authError = "null", !.isLoading = TRUE,
                                           !.update = <<[user |-> UserToUpdate(updates),
                                                         newPassword |-> updates.newPassword]>>]
                   /\ ret' = ret
    /\ UNCHANGED <<store, uuid, calls, seeding, dbPromise, view, loaded, properties, tenants, payments>>

\* updateProfile after its await: db.updateUser has run (alone), then the
\* result is handled, then finally.
updateProfileSettles ==
    /\ auth.update # <<>>
    /\ \E getFails, setFails \in BOOLEAN :
          LET userToUpdate == auth.update[1].user
              failed == ensureDbReady(dbPromise) = "throw"
              next == UpdateUserAfterRead(GetCollection(store, "users", getFails),
                                          userToUpdate)
              result == IF failed THEN "An error occurred during profile update."
                        ELSE IF ~next.write THEN "User not found."
                        ELSE IF setFails
                        THEN "An error occurred while updating user details."
                        ELSE "ok"
          IN  /\ store' = IF result = "ok" THEN [store EXCEPT !["users"] = next.data]
                          ELSE store
              /\ auth' = IF result = "ok"
                         THEN [auth EXCEPT !.currentUser = userToUpdate,
                                           !.isLoading = FALSE, !.update = <<>>]
                         ELSE [auth EXCEPT !.authError = result,
                                           !.isLoading = FALSE, !.update = <<>>]
              /\ ret' = [op |-> "updateProfile", result |-> result, id |-> "none"]
    /\ UNCHANGED <<uuid, calls, seeding, dbPromise, view, loaded, properties, tenants, payments>>

NextAuth ==
    \/ Reload
    \/ InitialFetchSettles
    \/ login
    \/ loginSettles
    \/ logout
    \/ register
    \/ updateProfile
    \/ updateProfileSettles

SpecAuth == InitAuth /\ [][NextAuth]_vars

\* ----------------------------------------------------------------- C23
\* The step in which a login, an updateProfile or the fetch issued at load
\* settles.
LoginReturns == auth.login # <<>> /\ auth'.login = <<>> /\ ret'.op = "login"
InitialFetchReturns == auth.fetching # "" /\ auth'.fetching = "" /\ ret'.op = "initialFetch"
LogoutRuns == ret'.op = "logout" /\ auth.isAuthenticated /\ ~auth'.isAuthenticated

\* The stored user a typed name matches, ignoring case.
MatchesStored(username, user) ==
    /\ \E i \in 1..Len(store["users"]) : store["users"][i] = user
    /\ ToLowerCase(user.username) = ToLowerCase(username)

\* C23: the session store holds one value, no username or one username, and
\* isAuthenticated is true exactly when it holds a username.  A login that
\* returns true stores the username of the record it matched; logout removes
\* it, sets isAuthenticated false and currentUser null; apart from these and
\* the fetch issued at load, no step (register, updateProfile, a login that
\* returns false) changes the session store.
C23_SessionAndFlagAgree ==
    /\ [](auth.isAuthenticated <=> auth.session # "")
    /\ [][(LoginReturns /\ ret'.result = "true")
             => /\ MatchesStored(auth.login[1].username, auth'.currentUser)
                /\ auth'.session = auth'.currentUser.username
                /\ auth'.isAuthenticated]_vars
    /\ [][LogoutRuns
             => /\ auth'.session = ""
                /\ auth'.currentUser = NoUser]_vars
    /\ [][auth'.session # auth.session
             => \/ LoginReturns /\ ret'.result = "true"
                \/ LogoutRuns
                \/ InitialFetchReturns /\ ret'.result # "found"]_vars
    /\ [][ret'.op \in {"register", "updateProfile"} => auth'.session = auth.session]_vars

\* A login typed in lower case has returned true and the session store holds
\* the username as it is stored.
C23_Witness ==
    /\ ret.op = "login"
    /\ ret.result = "true"
    /\ ret.id = "alice"
    /\ auth.session = "Alice"
    /\ auth.isAuthenticated
    /\ auth.currentUser.username = "Alice"

\* ----------------------------------------------------------------- C24
\* The promise of the fetch issued at load settles: idb-keyval's get and the
\* open of the database end, so the handlers of the fetch run.
SpecAuthFair == SpecAuth /\ WF_vars(InitialFetchSettles)

\* A stored record has the username the session store named at load.
StoredAs(username) ==
    \E i \in 1..Len(store["users"]) :
       ToLowerCase(store["users"][i].username) = ToLowerCase(username)

\* C24: when the module is loaded with a username in the session store, the
\* user record is fetched once.  When the fetch settles and no record has
\* that username, or the fetch failed, the session store is cleared and
\* isAuthenticated is false; otherwise currentUser is the stored record with
\* that username.  isFetchingInitialUser becomes false in every case.
C24_InitialFetch ==
    /\ [][InitialFetchReturns
             => /\ (~StoredAs(auth.fetching) \/ dbPromise = "rejected")
                     => (auth'.session = "" /\ ~auth'.isAuthenticated)
                /\ ret'.result # "found"
                     => (auth'.session = "" /\ ~auth'.isAuthenticated)
                /\ ret'.result = "found"
                     => /\ MatchesStored(auth.fetching, auth'.currentUser)
                        /\ auth'.session = auth.session
                        /\ auth'.isAuthenticated = auth.isAuthenticated
                /\ ~auth'.isFetchingInitialUser]_vars
    /\ [][(auth.fetching = "" /\ ret'.op # "reload") => auth'.fetching = ""]_vars
    /\ [](auth.isFetchingInitialUser <=> auth.fetching # "")
    /\ (auth.isFetchingInitialUser ~> ~auth.isFetchingInitialUser)

\* The fetch issued at load has found the record the session store named.
C24_Witness ==
    /\ ret.op = "initialFetch"
    /\ ret.result = "found"
    /\ auth.currentUser = UserAlice
    /\ auth.session = "Alice"
    /\ ~auth.isFetchingInitialUser

\* The fetch issued at load has found no record and cleared the session store.
C24_WitnessMissing ==
    /\ ret.op = "initialFetch"
    /\ ret.result = "missing"
    /\ auth.session = ""
    /\ ~auth.isAuthenticated

\* ----------------------------------------------------------------- C25
\* A stored record has the typed username, ignoring case, and the typed
\* password exactly.
CredentialsStored(username, password) ==
    \E i \in 1..Len(store["users"]) :
       /\ ToLowerCase(store["users"][i].username) = ToLowerCase(username)
       /\ store["users"][i].password = password

SessionKept ==
    /\ auth'.session = auth.session
    /\ auth'.isAuthenticated = auth.isAuthenticated
    /\ auth'.currentUser = auth.currentUser

\* C25 as the claim states it: login returns true exactly when a stored
\* record has the typed username ignoring case and the typed password, and a
\* login that returns false leaves the session store, isAuthenticated and
\* currentUser as they were.
C25_LoginIff ==
    [][LoginReturns
          => /\ ret'.result = "true"
                  <=> CredentialsStored(auth.login[1].username, auth.login[1].password)
             /\ ret'.result = "false" => SessionKept]_vars

\* C25, amended: login returns true exactly when the users could be read and
\* a stored record has the typed username ignoring case and the typed
\* password; when the read fails it returns false.  A login that returns
\* false leaves the session store, isAuthenticated and currentUser as they
\* were and sets authError.
C25_LoginIffWhenRead ==
    /\ [][LoginReturns
             => /\ ret'.result = "true"
                     <=> /\ ~ret'.readFailed
                         /\ CredentialsStored(auth.login[1].username,
                                              auth.login[1].password)
                /\ ret'.result = "false"
                     => (SessionKept /\ auth'.authError # "null")]_vars
    /\ [][(auth.login = <<>> /\ auth'.login # <<>>) => SessionKept]_vars

\* A login with the name of a stored user and another user's password has
\* returned false, the users having been read.
C25_Witness ==
    /\ ret.op = "login"
    /\ ret.result = "false"
    /\ ~ret.readFailed
    /\ StoredAs(ret.id)
    /\ \E i \in 1..Len(store["users"]) : store["users"][i].password = ret.password
    /\ ~CredentialsStored(ret.id, ret.password)
    /\ auth.authError = "Invalid username or password."
    /\ auth.session = ""
    /\ auth.currentUser = NoUser

\* ------------------------------------- add, update, delete on one array

\* The arrays a collection can hold, ids repeated included (two page loads
\* that seed at once store a seed record twice).
MaxStored == 3
StoredRecords == [id : {"a", "b"}, archive : BOOLEAN]
RECURSIVE ArraysUpTo(_)
ArraysUpTo(n) ==
    IF n = 0 THEN {<<>>}
    ELSE LET shorter == ArraysUpTo(n - 1)
         IN  shorter \cup {Append(arr, rec) : arr \in {a \in shorter : Len(a) = n - 1},
                                              rec \in StoredRecords}

InitArrays ==
    /\ \E coll \in RawCollections, arr \in ArraysUpTo(MaxStored) :
          store = [c \in Collections |-> IF c = coll THEN arr ELSE <<>>]
    /\ uuid = 0
    /\ calls = [c \in Callers \cup Collections |-> NoCall]
    /\ seeding = "done"
    /\ dbPromise = "fulfilled"
    /\ auth = NoAuth
    /\ view = "none"
    /\ loaded = 0
    /\ properties = <<>>
    /\ tenants = <<>>
    /\ payments = <<>>
    /\ ret = NoRet

\* db.addX / db.updateX / db.deleteX of properties, tenants or payments, run
\* alone, on the collection that holds records; ret keeps how many records
\* the write removed.
RepositoryWrite ==
    /\ \E op \in {"add", "update", "delete"}, coll \in RawCollections, rec \in StoredRecords :
          /\ \A other \in Collections \ {coll} : store[other] = <<>>
          /\ (op = "add") => Len(store[coll]) < MaxStored
          /\ store' = DbCall(store, op, coll, rec)
          /\ ret' = [op |-> op, result |-> "ok", id |-> coll, rec |-> rec,
                     removed |-> Len(store[coll]) - Len(store'[coll])]
    /\ UNCHANGED <<uuid, calls, seeding, dbPromise, auth, view, loaded, properties, tenants, payments>>

NextArrays == RepositoryWrite

SpecArrays == InitArrays /\ [][NextArrays]_vars

\* The positions of arr that hold a record with the id.
PositionsOf(arr, id) == {i \in 1..Len(arr) : arr[i].id = id}

ProfileReturnsEarly == updateProfile /\ auth'.update = <<>>
ProfileCallIssued == auth.update = <<>> /\ auth'.update # <<>>
ProfileReturns == ret'.op = "updateProfile" /\ auth.update # <<>> /\ auth'.update = <<>>

\* The stored password of some user changes, or the user is no longer stored.
StoredPasswordChanges ==
    \E i \in 1..Len(store["users"]) :
       \/ i > Len(store'["users"])
       \/ store'["users"][i].password # store["users"][i].password

\* updates asks for a new password and gives what the change requires.
PasswordChangeAllowed(updates, user) ==
    /\ updates.newPassword # ""
    /\ updates.currentPassword = user.password
    /\ PasswordLength(updates.newPassword) >= 6

ProfileFailureKeepsState ==
    /\ store' = store
    /\ auth'.currentUser = auth.currentUser
    /\ ~auth'.isLoading

\* C27 as the claim states it: updateProfile succeeds only with the current
\* password given correctly and a new password of six characters or more,
\* and in every other case it returns a failure and leaves the users and
\* currentUser as they were, with isLoading false.
C27_ProfileOnlyPassword ==
    /\ [][ProfileReturnsEarly => ProfileFailureKeepsState]_vars
    /\ [][ProfileCallIssued => auth'.update[1].newPassword # ""]_vars
    /\ [][ProfileReturns
             => (ret'.result # "ok" => ProfileFailureKeepsState)]_vars

\* C27, amended: updateProfile changes the stored password only when a new
\* password is given with the current password of currentUser and has six
\* characters or more.  When no user is authenticated, when a new password
\* comes without or with a wrong current password or is too short, when the
\* user id is not stored or the write fails, it returns a failure and the
\* users and currentUser are as they were.  Without a new password it needs
\* no current password: it stores the new name and succeeds.  isLoading is
\* false when it returns.
C27_ProfileUpdate ==
    /\ [][ProfileReturnsEarly => ProfileFailureKeepsState]_vars
    /\ [][ProfileCallIssued
             => LET newPassword == auth'.update[1].newPassword
                IN  /\ auth.isAuthenticated
                    /\ newPassword # "" => PasswordLength(newPassword) >= 6
                    /\ auth'.update[1].user.password
                          = IF newPassword # "" THEN newPassword
                            ELSE auth.currentUser.password
                    /\ auth'.update[1].user.id = auth.currentUser.id]_vars
    /\ [][ProfileReturns
             => /\ ret'.result # "ok" => ProfileFailureKeepsState
                /\ ret'.result = "ok"
                      => /\ auth'.currentUser = auth.update[1].user
                         /\ \E i \in 1..Len(store'["users"]) :
                               store'["users"][i] = auth.update[1].user
                         /\ ~auth'.isLoading]_vars
    /\ [][ProfileReturns /\ StoredPasswordChanges
             => /\ ret'.result = "ok"
                /\ auth.update[1].newPassword # ""]_vars
    /\ [](\A updates \in ProfileUpdates :
             (\/ auth.currentUser = NoUser
              \/ ~auth.isAuthenticated
              \/ /\ updates.newPassword # ""
                 /\ ~PasswordChangeAllowed(updates, auth.currentUser))
             => ProfileCheck(updates) # "ok")

\* updateProfile has stored a new password for the user who is signed in.
C27_Witness ==
    /\ ret.op = "updateProfile"
    /\ ret.result = "ok"
    /\ auth.isAuthenticated
    /\ auth.currentUser.password = "newsecret"
    /\ \E i \in 1..Len(store["users"]) : store["users"][i] = auth.currentUser
    /\ ~auth.isLoading

\* ---------------------------------------------------------------------
\* C28: in every reachable state, a currentUser that is set belongs to an
\* authenticated session: isAuthenticated is true and the session store
\* holds the username of currentUser.  This is to hold too when logout (or
\* logout and a login as another user) runs while the fetch issued at load
\* is still pending.
C28_CurrentUserHasSession ==
    auth.currentUser # NoUser
       => /\ auth.isAuthenticated
          /\ auth.session = auth.currentUser.username

\* ----------------------------------------------------- seeding, any lists
\* seedDatabaseIfNeeded maps over the lists of seedData.ts whatever they
\* hold.  The lists of the repository hold one record each; here a list may
\* hold further records: the first record of the list of a collection is
\* added in the slot named after the collection, and each slot of Callers
\* may carry one more record of some list.  No get and no set fails.

SeedSlots == Callers \cup Collections

\* A further record of the seed list of coll, with an id of its own.
FurtherSeedRecord(coll, n) ==
    IF coll = "users"
    THEN [id |-> RandomUUID(n), username |-> "bob", password |-> "pw2"]
    ELSE [SeedRecord(coll, 0) EXCEPT !.id = RandomUUID(n)]

\* The page is loaded with a database that opened, with or without users.
InitSeedLists ==
    /\ \E users \in {<<>>, <<SeedRecord("users", 0)>>} :
          store = [coll \in Collections |-> IF coll = "users" THEN users ELSE <<>>]
    /\ uuid = 0
    /\ calls = [c \in SeedSlots |-> NoCall]
    /\ seeding = "check"
    /\ dbPromise = "fulfilled"
    /\ auth = NoAuth
    /\ view = "none"
    /\ loaded = 0
    /\ properties = <<>>
    /\ tenants = <<>>
    /\ payments = <<>>
    /\ ret = NoRet

\* await db.getUsers() resolves: return when there are users, otherwise every
\* record of every list is handed to its add in the same task, so that each
\* add reads the array stored now.
SeedListsCheck ==
    /\ seeding = "check"
    /\ IF Len(store["users"]) > 0
       THEN /\ seeding' = "done"
            /\ UNCHANGED <<uuid, calls>>
       ELSE /\ seeding' = "adding"
            /\ uuid' = uuid + 5
            /\ \E further \in [Callers -> Collections \cup {"none"}] :
                  calls' = [c \in SeedSlots |->
                              IF c \in Collections
                              THEN Started(SeedOp(c), c, SeedRecord(c, 0), FALSE)
                              ELSE IF further[c] = "none" THEN NoCall
                              ELSE Started(SeedOp(further[c]), further[c],
                                           FurtherSeedRecord(further[c],
                                              IF c = "a" THEN 4 ELSE 5),
                                           FALSE)]
    /\ UNCHANGED <<store, viewVars, dbPromise, auth>>

\* The set of one seed add is carried out; the slot keeps the record.
SeedListAddSet(c) ==
    /\ seeding = "adding"
    /\ calls[c].pc = "set"
    /\ store' = [store EXCEPT ![calls[c].coll] = WrittenValue(store, calls[c])]
    /\ calls' = [calls EXCEPT ![c].pc = "done", ![c].result = "ok"]
    /\ UNCHANGED <<uuid, viewVars, seeding, dbPromise, auth>>

\* Promise.all resolves when every add has settled.
SeedListsCompleted ==
    /\ seeding = "adding"
    /\ \A c \in SeedSlots : calls[c].pc \in {"idle", "done"}
    /\ seeding' = "done"
    /\ UNCHANGED <<store, uuid, calls, viewVars, dbPromise, auth>>

NextSeedLists ==
    \/ SeedListsCheck
    \/ \E c \in SeedSlots : SeedListAddSet(c)
    \/ SeedListsCompleted

SpecSeedLists == InitSeedLists /\ [][NextSeedLists]_vars

\* The record a slot has added is stored in the collection of its list.
SeedRecordStored(c) ==
    \E i \in 1..Len(store[calls[c].coll]) : store[calls[c].coll][i] = calls[c].rec

\* ----------------------------------------------------------------- C30
\* C30: with no users stored and no storage failure, once the seeding has
\* completed every record of every seed list is stored, also when a list
\* holds two or more records whose adds are issued together; with users
\* stored the seeding writes nothing.
C30_SeedingStoresEveryRecord ==
    /\ [](seeding = "done"
            => \A c \in SeedSlots : calls[c].pc = "done" => SeedRecordStored(c))
    /\ [][seeding = "check" /\ Len(store["users"]) > 0
             => store' = store /\ calls' = calls /\ seeding' = "done"]_vars

\* The same for lists of one record each, as seedData.ts has them.
SeedingStoresSingleRecords ==
    /\ [](seeding = "done" /\ (\A c \in Callers : calls[c].pc = "idle")
            => \A c \in Collections : calls[c].pc = "done" => SeedRecordStored(c))
    /\ [][seeding = "check" /\ Len(store["users"]) > 0
             => store' = store /\ calls' = calls /\ seeding' = "done"]_vars

SeedingCompletedSingle ==
    /\ seeding = "done"
    /\ \A c \in Callers : calls[c].pc = "idle"
    /\ \A c \in Collections : calls[c].pc = "done" /\ SeedRecordStored(c)

\* ----------------------------------------------------------------- C29
\* C29: in every reachable state the tenantId of every stored payment is the
\* id of a stored tenant: payments are recorded for stored tenants only and
\* deleteTenant removes no tenant a stored payment refers to, also when the
\* delete is asked for after the view has loaded the tenants and before it
\* has loaded the payments, and while the seed records are being written.
C29_PaymentsReferToStoredTenants ==
    \A i \in 1..Len(store["payments"]) :
       \E j \in 1..Len(store["tenants"]) :
          store["tenants"][j].id = store["payments"][i].tenantId

====
